---- MODULE Spec2Model ----
(***************************************************************************)
(* Model of tag-it (src/src/index.ts): a GitHub Action that validates PR   *)
(* titles and, on push, classifies the commits since the latest semver     *)
(* tag, creates the next version tag, optionally publishes a release and   *)
(* moves the floating major / minor tags.                                  *)
(*                                                                         *)
(* Strings are sequences of one-character strings, so that prefix tests,   *)
(* substring tests, splitting and number formatting are computed.          *)
(***************************************************************************)
EXTENDS Integers, Sequences, FiniteSets, TLC

\* ------------------------------------------------------------------ bounds
\* Commits the environment may push on top of the initial history.
MaxPushes == 1
\* Events (workflow runs) that may be triggered in one behaviour.
MaxEvents == 2
\* Longest commit list given to the classifier on its own.
MaxCommitList == 3

\* --------------------------------------------------------- string helpers
NoValue == <<"<null>">>

StartsWith(s, p) ==
  /\ Len(s) >= Len(p)
  /\ SubSeq(s, 1, Len(p)) = p

Includes(s, p) ==
  \E i \in 1..(Len(s) - Len(p) + 1) : SubSeq(s, i, i + Len(p) - 1) = p

\* Position of the first occurrence of character c in s, 0 when absent.
IndexOf(s, c) ==
  IF \E i \in 1..Len(s) : s[i] = c
    THEN CHOOSE i \in 1..Len(s) : s[i] = c /\ \A j \in 1..(i - 1) : s[j] # c
    ELSE 0

\* message.split('\n')[0]
FirstLine(message) ==
  LET i == IndexOf(message, "\n")
  IN  IF i = 0 THEN message ELSE SubSeq(message, 1, i - 1)

RECURSIVE Split(_, _)
Split(s, c) ==
  LET i == IndexOf(s, c)
  IN  IF i = 0 THEN <<s>>
      ELSE <<SubSeq(s, 1, i - 1)>> \o Split(SubSeq(s, i + 1, Len(s)), c)

\* new RegExp(`^${tagPrefix}`): the prefix is read as a pattern. Of the
\* pattern language, the part the prefixes drawn here use: "." is any
\* character, "+" repeats the atom before it once or more, every other
\* character stands for itself. A "+" with no atom before it is a
\* SyntaxError ("Nothing to repeat"), thrown by the constructor.
RegExpValid(pattern) ==
  \A i \in 1..Len(pattern) :
    pattern[i] = "+" => (i > 1 /\ pattern[i - 1] # "+")

AtomMatches(atom, c) == atom = "." \/ atom = c

\* The number of characters of s from position j on that match the atom.
RECURSIVE AtomRun(_, _, _)
AtomRun(atom, s, j) ==
  IF j <= Len(s) /\ AtomMatches(atom, s[j]) THEN 1 + AtomRun(atom, s, j + 1) ELSE 0

\* The match of pattern[i..] at s[j..], anchored at j: the position after
\* the match, 0 when there is none. A repeated atom takes the longest run
\* that lets the rest of the pattern match (greedy, with backtracking).
RECURSIVE RegExpMatchEnd(_, _, _, _)
RegExpMatchEnd(pattern, i, s, j) ==
  IF i > Len(pattern) THEN j
  ELSE IF i < Len(pattern) /\ pattern[i + 1] = "+"
    THEN LET fits == {k \in 1..AtomRun(pattern[i], s, j) :
                        RegExpMatchEnd(pattern, i + 2, s, j + k) # 0}
         IN  IF fits = {} THEN 0
             ELSE RegExpMatchEnd(pattern, i + 2, s,
                                 j + (CHOOSE k \in fits : \A m \in fits : m <= k))
  ELSE IF j <= Len(s) /\ AtomMatches(pattern[i], s[j])
    THEN RegExpMatchEnd(pattern, i + 1, s, j + 1)
  ELSE 0

\* name.replace(new RegExp(`^${tagPrefix}`), ''): the match at the start of
\* the name is removed; a name the pattern does not match is left as it is.
StripPrefix(name, tagPrefix) ==
  LET end == RegExpMatchEnd(tagPrefix, 1, name, 1)
  IN  IF end = 0 THEN name ELSE SubSeq(name, end, Len(name))

Digits == <<"0", "1", "2", "3", "4", "5", "6", "7", "8", "9">>

IsDigit(c) == \E d \in 1..10 : Digits[d] = c

DigitVal(c) == (CHOOSE d \in 1..10 : Digits[d] = c) - 1

\* Template-literal formatting of a non-negative number.
RECURSIVE NumToStr(_)
NumToStr(n) ==
  IF n < 10 THEN <<Digits[n + 1]>>
  ELSE NumToStr(n \div 10) \o <<Digits[(n % 10) + 1]>>

RECURSIVE StrToNum(_)
StrToNum(s) ==
  IF Len(s) = 0 THEN 0
  ELSE 10 * StrToNum(SubSeq(s, 1, Len(s) - 1)) + DigitVal(s[Len(s)])

\* input.trim(): strips leading and trailing blanks.
RECURSIVE Trim(_)
Trim(s) ==
  IF Len(s) = 0 THEN s
  ELSE IF s[1] = " " THEN Trim(Tail(s))
  ELSE IF s[Len(s)] = " " THEN Trim(SubSeq(s, 1, Len(s) - 1))
  ELSE s

UpperChars == <<"A", "B", "C", "D", "E", "F", "G", "H", "I", "J", "K", "L", "M",
                "N", "O", "P", "Q", "R", "S", "T", "U", "V", "W", "X", "Y", "Z">>

LowerChars == <<"a", "b", "c", "d", "e", "f", "g", "h", "i", "j", "k", "l", "m",
                "n", "o", "p", "q", "r", "s", "t", "u", "v", "w", "x", "y", "z">>

LowerChar(c) ==
  IF \E i \in 1..26 : UpperChars[i] = c
    THEN LowerChars[CHOOSE i \in 1..26 : UpperChars[i] = c]
    ELSE c

\* input.toLowerCase()
ToLowerCase(s) == [i \in 1..Len(s) |-> LowerChar(s[i])]

\* Characters allowed in semver identifiers, in ASCII order.
IdAlphabet == <<"-">> \o Digits \o UpperChars \o LowerChars

IsIdChar(c) == \E i \in 1..Len(IdAlphabet) : IdAlphabet[i] = c

CharCode(c) == CHOOSE i \in 1..Len(IdAlphabet) : IdAlphabet[i] = c

RECURSIVE Join(_, _)
Join(parts, c) ==
  IF Len(parts) = 0 THEN <<>>
  ELSE IF Len(parts) = 1 THEN parts[1]
  ELSE parts[1] \o <<c>> \o Join(Tail(parts), c)

\* ------------------------------------------------- the semver library
\* (npm package "semver", strict mode, as used by index.ts)
AllDigits(p) == \A i \in 1..Len(p) : IsDigit(p[i])

IsNumericId(p) ==
  /\ Len(p) > 0
  /\ AllDigits(p)
  /\ (Len(p) = 1 \/ p[1] # "0")

IsPrereleaseId(p) ==
  /\ Len(p) > 0
  /\ \A i \in 1..Len(p) : IsIdChar(p[i])
  /\ (AllDigits(p) => IsNumericId(p))

IsBuildId(p) ==
  /\ Len(p) > 0
  /\ \A i \in 1..Len(p) : IsIdChar(p[i])

NoVersion == [valid |-> FALSE, major |-> 0, minor |-> 0, patch |-> 0, prerelease |-> <<>>]

\* new SemVer(version): optional leading "v", MAJOR.MINOR.PATCH,
\* optional -prerelease, optional +build.
SemverParse(version) ==
  LET t     == Trim(version)
      s1    == IF Len(t) > 0 /\ t[1] = "v" THEN Tail(t) ELSE t
      plus  == IndexOf(s1, "+")
      main  == IF plus = 0 THEN s1 ELSE SubSeq(s1, 1, plus - 1)
      build == IF plus = 0 THEN <<>> ELSE SubSeq(s1, plus + 1, Len(s1))
      dash  == IndexOf(main, "-")
      core  == IF dash = 0 THEN main ELSE SubSeq(main, 1, dash - 1)
      pre   == IF dash = 0 THEN <<>> ELSE SubSeq(main, dash + 1, Len(main))
      parts == Split(core, ".")
      preIds   == Split(pre, ".")
      buildIds == Split(build, ".")
      ok == /\ Len(parts) = 3
            /\ \A i \in 1..Len(parts) : IsNumericId(parts[i])
            /\ (dash # 0 => \A i \in 1..Len(preIds) : IsPrereleaseId(preIds[i]))
            /\ (plus # 0 => \A i \in 1..Len(buildIds) : IsBuildId(buildIds[i]))
  IN  IF ok
        THEN [valid |-> TRUE,
              major |-> StrToNum(parts[1]),
              minor |-> StrToNum(parts[2]),
              patch |-> StrToNum(parts[3]),
              prerelease |-> IF dash = 0 THEN <<>> ELSE preIds]
        ELSE NoVersion

\* SemVer.format()
SemverFormat(v) ==
  NumToStr(v.major) \o <<".">> \o NumToStr(v.minor) \o <<".">> \o NumToStr(v.patch)
    \o (IF Len(v.prerelease) > 0 THEN <<"-">> \o Join(v.prerelease, ".") ELSE <<>>)

\* semver.valid(version) !== null
SemverValid(version) == SemverParse(version).valid

\* SemverIncParsed whose patch increment ignores the pre-release part.
SemverIncParsedAlwaysPatch(v, release) ==
  IF release = "major"
    THEN [valid |-> TRUE,
          major |-> IF v.minor # 0 \/ v.patch # 0 \/ Len(v.prerelease) = 0
                      THEN v.major + 1 ELSE v.major,
          minor |-> 0, patch |-> 0, prerelease |-> <<>>]
  ELSE IF release = "minor"
    THEN [valid |-> TRUE,
          major |-> v.major,
          minor |-> IF v.patch # 0 \/ Len(v.prerelease) = 0
                      THEN v.minor + 1 ELSE v.minor,
          patch |-> 0, prerelease |-> <<>>]
  ELSE [valid |-> TRUE,
        major |-> v.major,
        minor |-> v.minor,
        patch |-> v.patch + 1,
        prerelease |-> <<>>]

\* SemVer.inc(release) for release in major / minor / patch
SemverIncParsed(v, release) ==
  IF release = "major"
    THEN [valid |-> TRUE,
          major |-> IF v.minor # 0 \/ v.patch # 0 \/ Len(v.prerelease) = 0
                      THEN v.major + 1 ELSE v.major,
          minor |-> 0, patch |-> 0, prerelease |-> <<>>]
  ELSE IF release = "minor"
    THEN [valid |-> TRUE,
          major |-> v.major,
          minor |-> IF v.patch # 0 \/ Len(v.prerelease) = 0
                      THEN v.minor + 1 ELSE v.minor,
          patch |-> 0, prerelease |-> <<>>]
  ELSE [valid |-> TRUE,
        major |-> v.major,
        minor |-> v.minor,
        patch |-> IF Len(v.prerelease) = 0 THEN v.patch + 1 ELSE v.patch,
        prerelease |-> <<>>]

\* semver.inc(version, release): the new version string, NoValue (null)
\* when version does not parse.
SemverInc(version, release) ==
  LET v == SemverParse(version)
  IN  IF v.valid THEN SemverFormat(SemverIncParsed(v, release)) ELSE NoValue

\* semver.major(version), semver.minor(version)
SemverMajor(version) == SemverParse(version).major

SemverMinor(version) == SemverParse(version).minor

\* compareIdentifiers(a, b): numeric identifiers compare as numbers and
\* sort before alphanumeric ones, which compare in ASCII order.
RECURSIVE CompareStr(_, _)
CompareStr(a, b) ==
  IF Len(a) = 0 /\ Len(b) = 0 THEN 0
  ELSE IF Len(a) = 0 THEN -1
  ELSE IF Len(b) = 0 THEN 1
  ELSE IF CharCode(a[1]) < CharCode(b[1]) THEN -1
  ELSE IF CharCode(a[1]) > CharCode(b[1]) THEN 1
  ELSE CompareStr(Tail(a), Tail(b))

CompareIdentifiers(a, b) ==
  IF AllDigits(a) /\ AllDigits(b)
    THEN (IF StrToNum(a) < StrToNum(b) THEN -1
          ELSE IF StrToNum(a) > StrToNum(b) THEN 1 ELSE 0)
  ELSE IF AllDigits(a) THEN -1
  ELSE IF AllDigits(b) THEN 1
  ELSE CompareStr(a, b)

RECURSIVE ComparePre(_, _)
ComparePre(a, b) ==
  IF Len(a) = 0 /\ Len(b) = 0 THEN 0
  ELSE IF Len(b) = 0 THEN 1
  ELSE IF Len(a) = 0 THEN -1
  ELSE IF CompareIdentifiers(a[1], b[1]) # 0 THEN CompareIdentifiers(a[1], b[1])
  ELSE ComparePre(Tail(a), Tail(b))

\* SemVer.compare(other): -1, 0 or 1
SemverCompareParsed(a, b) ==
  IF a.major # b.major THEN (IF a.major < b.major THEN -1 ELSE 1)
  ELSE IF a.minor # b.minor THEN (IF a.minor < b.minor THEN -1 ELSE 1)
  ELSE IF a.patch # b.patch THEN (IF a.patch < b.patch THEN -1 ELSE 1)
  ELSE IF Len(a.prerelease) > 0 /\ Len(b.prerelease) = 0 THEN -1
  ELSE IF Len(a.prerelease) = 0 /\ Len(b.prerelease) > 0 THEN 1
  ELSE ComparePre(a.prerelease, b.prerelease)

\* semver.rcompare(a, b) = compare(b, a)
SemverRcompare(a, b) == SemverCompareParsed(SemverParse(b), SemverParse(a))

\* ------------------------------------------------------ literal strings
\* v
StrV ==
  <<"v">>

\* 0.0.0
StrInitial ==
  <<"0", ".", "0", ".", "0">>

\* main
StrMain ==
  <<"m", "a", "i", "n">>

\* master
StrMaster ==
  <<"m", "a", "s", "t", "e", "r">>

\* refs/heads/
StrRefsHeads ==
  <<"r", "e", "f", "s", "/", "h", "e", "a", "d", "s", "/">>

\* !:
StrBangColon ==
  <<"!", ":">>

\* BREAKING CHANGE:
StrBreakingChange ==
  <<"B", "R", "E", "A", "K", "I", "N", "G", " ", "C", "H", "A", "N", "G",
      "E", ":">>

\* BREAKING-CHANGE:
StrBreakingHyphen ==
  <<"B", "R", "E", "A", "K", "I", "N", "G", "-", "C", "H", "A", "N", "G",
      "E", ":">>

\* feat
StrFeat ==
  <<"f", "e", "a", "t">>

\* fix
StrFix ==
  <<"f", "i", "x">>

\* false
StrFalse ==
  <<"f", "a", "l", "s", "e">>

\* off
StrOff ==
  <<"o", "f", "f">>

\* 0
StrZero ==
  <<"0">>

\* no
StrNo ==
  <<"n", "o">>

\* true
StrTrue ==
  <<"t", "r", "u", "e">>

\* 1
StrOne ==
  <<"1">>

\* yes
StrYes ==
  <<"y", "e", "s">>

\* on
StrOn ==
  <<"o", "n">>

\* minor
StrMinor ==
  <<"m", "i", "n", "o", "r">>

\* major+minor
StrMajorPlusMinor ==
  <<"m", "a", "j", "o", "r", "+", "m", "i", "n", "o", "r">>

\* major,minor
StrMajorCommaMinor ==
  <<"m", "a", "j", "o", "r", ",", "m", "i", "n", "o", "r">>

\* majorminor
StrMajorMinor ==
  <<"m", "a", "j", "o", "r", "m", "i", "n", "o", "r">>

\* chore: release 
StrChoreRelease ==
  <<"c", "h", "o", "r", "e", ":", " ", "r", "e", "l", "e", "a", "s", "e",
      " ">>

\* develop
StrDevelop ==
  <<"d", "e", "v", "e", "l", "o", "p">>

\* feature-x
StrFeatureX ==
  <<"f", "e", "a", "t", "u", "r", "e", "-", "x">>

\* ------------------------------------------------ sample commit messages
\* feat: a
MsgFeat ==
  <<"f", "e", "a", "t", ":", " ", "a">>

\* fix: b
MsgFix ==
  <<"f", "i", "x", ":", " ", "b">>

\* docs: c
MsgDocs ==
  <<"d", "o", "c", "s", ":", " ", "c">>

\* feat!: break
MsgFeatBang ==
  <<"f", "e", "a", "t", "!", ":", " ", "b", "r", "e", "a", "k">>

\* fix(ui)!: g
MsgFixScopeBang ==
  <<"f", "i", "x", "(", "u", "i", ")", "!", ":", " ", "g">>

\* chore: x\n\nBREAKING CHANGE: y
MsgBodyBreaking ==
  <<"c", "h", "o", "r", "e", ":", " ", "x", "\n", "\n", "B", "R", "E", "A",
      "K", "I", "N", "G", " ", "C", "H", "A", "N", "G", "E", ":", " ", "y">>

\* docs: d\nBREAKING-CHANGE: z
MsgBodyHyphen ==
  <<"d", "o", "c", "s", ":", " ", "d", "\n", "B", "R", "E", "A", "K", "I",
      "N", "G", "-", "C", "H", "A", "N", "G", "E", ":", " ", "z">>

\* docs: e\nsee !: f
MsgBodyBang ==
  <<"d", "o", "c", "s", ":", " ", "e", "\n", "s", "e", "e", " ", "!", ":",
      " ", "f">>

\* docs: h\nfeat: i
MsgBodyFeat ==
  <<"d", "o", "c", "s", ":", " ", "h", "\n", "f", "e", "a", "t", ":", " ",
      "i">>

\* feature x
MsgFeature ==
  <<"f", "e", "a", "t", "u", "r", "e", " ", "x">>

\* Fix: j
MsgUpperFix ==
  <<"F", "i", "x", ":", " ", "j">>

\* --------------------------------------------------- pure program functions
\* (x || d) on strings: the empty string is falsy.
OrDefault(x, d) == IF Len(x) = 0 THEN d ELSE x

\* parseFloatingTagMode not recognising the major+minor spellings.
parseFloatingTagModeMajorOnly(input) ==
  LET raw == ToLowerCase(Trim(input))
  IN  IF raw = StrFalse \/ raw = StrOff \/ raw = StrZero \/ raw = StrNo THEN "off"
      ELSE "major"

parseFloatingTagMode(input) ==
  LET raw == ToLowerCase(Trim(input))
  IN  IF raw = StrFalse \/ raw = StrOff \/ raw = StrZero \/ raw = StrNo THEN "off"
      ELSE IF raw = StrMinor \/ raw = StrMajorPlusMinor
                \/ raw = StrMajorCommaMinor \/ raw = StrMajorMinor THEN "major+minor"
      ELSE "major"

parseBooleanInput(input, defaultValue) ==
  LET raw == ToLowerCase(Trim(input))
  IN  IF Len(raw) = 0 THEN defaultValue
      ELSE IF raw = StrTrue \/ raw = StrOne \/ raw = StrYes \/ raw = StrOn THEN TRUE
      ELSE IF raw = StrFalse \/ raw = StrZero \/ raw = StrNo \/ raw = StrOff THEN FALSE
      ELSE defaultValue

\* ClassifyCommit looking for the breaking-change markers in the first line only.
ClassifyCommitFirstLineOnly(flags, message) ==
  LET firstLine == FirstLine(message)
  IN  [hasBreaking |-> flags.hasBreaking
                         \/ Includes(firstLine, StrBangColon)
                         \/ Includes(firstLine, StrBreakingChange)
                         \/ Includes(firstLine, StrBreakingHyphen),
       hasFeat |-> flags.hasFeat \/ StartsWith(firstLine, StrFeat),
       hasFix  |-> flags.hasFix \/ StartsWith(firstLine, StrFix)]

\* One iteration of the loop of determineBumpType: the three flags after
\* looking at one commit message.
ClassifyCommit(flags, message) ==
  LET firstLine == FirstLine(message)
  IN  [hasBreaking |-> flags.hasBreaking
                         \/ Includes(firstLine, StrBangColon)
                         \/ Includes(message, StrBreakingChange)
                         \/ Includes(message, StrBreakingHyphen),
       hasFeat |-> flags.hasFeat \/ StartsWith(firstLine, StrFeat),
       hasFix  |-> flags.hasFix \/ StartsWith(firstLine, StrFix)]

RECURSIVE ClassifyLoop(_, _)
ClassifyLoop(flags, commits) ==
  IF Len(commits) = 0 THEN flags
  ELSE ClassifyLoop(ClassifyCommit(flags, Head(commits).message), Tail(commits))

ResolveBump(flags) ==
  IF flags.hasBreaking THEN "major"
  ELSE IF flags.hasFeat THEN "minor"
  ELSE IF flags.hasFix THEN "patch"
  ELSE "none"

determineBumpType(commits) ==
  ResolveBump(ClassifyLoop([hasBreaking |-> FALSE, hasFeat |-> FALSE, hasFix |-> FALSE],
                           commits))

\* The type alternatives of CONVENTIONAL_COMMIT_REGEX.
ConventionalTypes ==
  {<<"f", "e", "a", "t">>,
   <<"f", "i", "x">>,
   <<"d", "o", "c", "s">>,
   <<"s", "t", "y", "l", "e">>,
   <<"r", "e", "f", "a", "c", "t", "o", "r">>,
   <<"p", "e", "r", "f">>,
   <<"t", "e", "s", "t">>,
   <<"b", "u", "i", "l", "d">>,
   <<"c", "i">>,
   <<"c", "h", "o", "r", "e">>,
   <<"r", "e", "v", "e", "r", "t">>}

NoLineBreak(s) == \A i \in 1..Len(s) : s[i] # "\n" /\ s[i] # "\r"

IsWhitespace(c) == c = " " \/ c = "\t" \/ c = "\n" \/ c = "\r"

\* CONVENTIONAL_COMMIT_REGEX without the optional scope.
ConventionalCommitRegexWithoutScope(title) ==
  \E type \in ConventionalTypes :
    /\ StartsWith(title, type)
    /\ LET rest == SubSeq(title, Len(type) + 1, Len(title))
       IN  \E bang \in 0..1 :
             /\ bang = 1 => (1 <= Len(rest) /\ rest[1] = "!")
             /\ bang + 3 <= Len(rest)
             /\ rest[bang + 1] = ":"
             /\ IsWhitespace(rest[bang + 2])
             /\ NoLineBreak(SubSeq(rest, bang + 3, Len(rest)))

\* CONVENTIONAL_COMMIT_REGEX.test(title):
\*   ^(type)(\(.+\))?!?:\s.+$
CONVENTIONAL_COMMIT_REGEX(title) ==
  \E type \in ConventionalTypes :
    /\ StartsWith(title, type)
    /\ LET rest == SubSeq(title, Len(type) + 1, Len(title))
       IN  \E k \in 0..Len(rest) : \E bang \in 0..1 :
             /\ k # 0 => /\ k >= 3
                         /\ rest[1] = "("
                         /\ rest[k] = ")"
                         /\ NoLineBreak(SubSeq(rest, 2, k - 1))
             /\ bang = 1 => (k + 1 <= Len(rest) /\ rest[k + 1] = "!")
             /\ k + bang + 3 <= Len(rest)
             /\ rest[k + bang + 1] = ":"
             /\ IsWhitespace(rest[k + bang + 2])
             /\ NoLineBreak(SubSeq(rest, k + bang + 3, Len(rest)))

\* Unable to retrieve PR title
StrUnableToRetrieve ==
  <<"U", "n", "a", "b", "l", "e", " ", "t", "o", " ", "r", "e", "t", "r",
    "i", "e", "v", "e", " ", "P", "R", " ", "t", "i", "t", "l", "e">>

\* PR title does not follow Conventional Commits format.\n\n
StrNotConventional ==
  <<"P", "R", " ", "t", "i", "t", "l", "e", " ", "d", "o", "e", "s", " ",
    "n", "o", "t", " ", "f", "o", "l", "l", "o", "w", " ", "C", "o", "n",
    "v", "e", "n", "t", "i", "o", "n", "a", "l", " ", "C", "o", "m", "m",
    "i", "t", "s", " ", "f", "o", "r", "m", "a", "t", ".", "\n", "\n">>

\* Expected format: <type>[optional scope][!]: <description>\n\n
StrExpectedFormat ==
  <<"E", "x", "p", "e", "c", "t", "e", "d", " ", "f", "o", "r", "m", "a",
    "t", ":", " ", "<", "t", "y", "p", "e", ">", "[", "o", "p", "t", "i",
    "o", "n", "a", "l", " ", "s", "c", "o", "p", "e", "]", "[", "!", "]",
    ":", " ", "<", "d", "e", "s", "c", "r", "i", "p", "t", "i", "o", "n",
    ">", "\n", "\n">>

\* Valid types: feat, fix, docs, style, refactor, perf, test, build, ci, chore, revert
StrValidTypes ==
  <<"V", "a", "l", "i", "d", " ", "t", "y", "p", "e", "s", ":", " ", "f",
    "e", "a", "t", ",", " ", "f", "i", "x", ",", " ", "d", "o", "c", "s",
    ",", " ", "s", "t", "y", "l", "e", ",", " ", "r", "e", "f", "a", "c",
    "t", "o", "r", ",", " ", "p", "e", "r", "f", ",", " ", "t", "e", "s",
    "t", ",", " ", "b", "u", "i", "l", "d", ",", " ", "c", "i", ",", " ",
    "c", "h", "o", "r", "e", ",", " ", "r", "e", "v", "e", "r", "t">>

\* \n\nExamples:\n  - feat: add new feature\n  - fix(auth): resolve login issue\n  - feat!: breaking change in API\n  - chore(deps): update dependencies\n\n
StrExamples ==
  <<"\n", "\n", "E", "x", "a", "m", "p", "l", "e", "s", ":", "\n", " ", " ",
    "-", " ", "f", "e", "a", "t", ":", " ", "a", "d", "d", " ", "n", "e",
    "w", " ", "f", "e", "a", "t", "u", "r", "e", "\n", " ", " ", "-", " ",
    "f", "i", "x", "(", "a", "u", "t", "h", ")", ":", " ", "r", "e", "s",
    "o", "l", "v", "e", " ", "l", "o", "g", "i", "n", " ", "i", "s", "s",
    "u", "e", "\n", " ", " ", "-", " ", "f", "e", "a", "t", "!", ":", " ",
    "b", "r", "e", "a", "k", "i", "n", "g", " ", "c", "h", "a", "n", "g",
    "e", " ", "i", "n", " ", "A", "P", "I", "\n", " ", " ", "-", " ", "c",
    "h", "o", "r", "e", "(", "d", "e", "p", "s", ")", ":", " ", "u", "p",
    "d", "a", "t", "e", " ", "d", "e", "p", "e", "n", "d", "e", "n", "c",
    "i", "e", "s", "\n", "\n">>

\* Your title: "
StrYourTitle ==
  <<"Y", "o", "u", "r", " ", "t", "i", "t", "l", "e", ":", " ", "\"">>

\* feat(api)!: x
TitleScopedBang ==
  <<"f", "e", "a", "t", "(", "a", "p", "i", ")", "!", ":", " ", "x">>

\* fix:x
TitleNoSpace ==
  <<"f", "i", "x", ":", "x">>

\* feature: x
TitleUnknownType ==
  <<"f", "e", "a", "t", "u", "r", "e", ":", " ", "x">>

\* handlePullRequest, lines 69 and 76-86: the message given to
\* core.setFailed at each of its two failure exits.
setFailedMessage(step, prTitle) ==
  IF step = "prTitleMissing" THEN StrUnableToRetrieve
  ELSE IF step = "prTitleFormat"
    THEN StrNotConventional \o StrExpectedFormat \o StrValidTypes \o StrExamples
           \o StrYourTitle \o prTitle \o <<"\"">>
  ELSE NoValue

\* fix: resolve bug
TitleFix ==
  <<"f", "i", "x", ":", " ", "r", "e", "s", "o", "l", "v", "e", " ", "b", "u", "g">>

\* resolve bug
TitlePlain ==
  <<"r", "e", "s", "o", "l", "v", "e", " ", "b", "u", "g">>

\*  Off
InputOff ==
  <<" ", "O", "f", "f">>

\* minor
InputMinor ==
  <<"m", "i", "n", "o", "r">>

\* true
InputTrue ==
  <<"t", "r", "u", "e">>

\* make bump
InputCmd ==
  <<"m", "a", "k", "e", " ", "b", "u", "m", "p">>

\* one
InputBadVersion ==
  <<"o", "n", "e">>

\* v1.4.2
TagV142 ==
  <<"v", "1", ".", "4", ".", "2">>

\* v1
TagV1 ==
  <<"v", "1">>

\* v1.5.0
TagV150 ==
  <<"v", "1", ".", "5", ".", "0">>

\* https://releases/
StrUrl ==
  <<"h", "t", "t", "p", "s", ":", "/", "/", "r", "e", "l", "e", "a", "s", "e", "s", "/">>

\* ------------------------------------------------------------------- state
VARIABLES
  inputs,      \* the action's inputs, as core.getInput returns them
  commits,     \* the default branch: commit messages, sha = position
  tags,        \* remote tag refs: name -> [type, sha, commit]
  releases,    \* remote releases: the tag names that have a release
  run,         \* the workflow runs: per run, position, context, locals, outputs,
               \* exit status, and a log: the calls that threw in the step just
               \* taken (threw) and the remote writes made so far (writes)
  overlap,     \* whether a run may be triggered while another is in progress
  events,      \* events delivered so far
  pushes,      \* commits pushed by developers so far
  commitList,  \* classifier on its own: the commit list given to it
  classified,  \* classifier on its own: its result, "pending" before the call
  resolverTag, \* version resolver on its own: the latest tag given to it
  resolved,    \* version resolver on its own: per bump type, the new version
               \* and tag; empty before the call
  floatingRef  \* updateFloatingTag on its own: its arguments and, per call
               \* made, what the host did and whether the call returned

vars == <<inputs, commits, tags, releases, run, overlap, events, pushes,
          commitList, classified, resolverTag, resolved, floatingRef>>

Runs == {1, 2}

FloatingTagInputs == {<<>>, InputOff, InputMinor}

CreateReleaseInputs == {<<>>, InputTrue}

PreReleaseCommandInputs == {<<>>, InputCmd}

InitialVersionInputs == {<<>>, InputBadVersion}

TagPrefixInputs == {<<>>}

RepoMessages == {MsgFeat, MsgFix, MsgDocs, MsgFeatBang}

\* Messages of the commits pushed while the model runs.
PushedMessages == {MsgFix}

Refs ==
  {StrRefsHeads \o StrMain, StrRefsHeads \o StrMaster, StrRefsHeads \o StrDevelop,
   StrRefsHeads \o StrFeatureX}

DefaultBranches == {StrDevelop}

PrTitles ==
  {NoValue, <<>>, TitleFix, TitlePlain, TitleScopedBang, TitleNoSpace, TitleUnknownType}

PushEvents ==
  {[eventName |-> "push", ref |-> ref, defaultBranch |-> b, prTitle |-> NoValue] :
     ref \in Refs, b \in DefaultBranches}

PullRequestEvents ==
  {[eventName |-> "pull_request", ref |-> NoValue, defaultBranch |-> NoValue,
    prTitle |-> t] : t \in PrTitles}

OtherEvents ==
  {[eventName |-> "schedule", ref |-> NoValue, defaultBranch |-> NoValue,
    prTitle |-> NoValue]}

\* The outputs of a run before any core.setOutput call.
NoOutputs ==
  [bumpType |-> "unset", newTag |-> NoValue, floatingTag |-> NoValue,
   floatingMinorTag |-> NoValue, releaseUrl |-> NoValue]

IdleRun ==
  [pc |-> "idle", eventName |-> "none", ref |-> NoValue, defaultBranch |-> NoValue,
   prTitle |-> NoValue, sha |-> 0,
   latestTag |-> NoValue, listFailed |-> FALSE,
   commits |-> <<>>, threw |-> {},
   bumpType |-> "none", newVersion |-> NoValue, newTag |-> NoValue, shaToTag |-> 0,
   outputs |-> NoOutputs, failed |-> FALSE, failStep |-> "none",
   writes |-> {}]

\* run(): lines 36-41, the inputs as the handlers receive them.
tagPrefix == OrDefault(inputs.tagPrefix, StrV)

initialVersion == OrDefault(inputs.initialVersion, StrInitial)

floatingTagMode == parseFloatingTagMode(inputs.floatingTag)

createRelease == parseBooleanInput(inputs.createRelease, FALSE)

preReleaseCommand == OrDefault(Trim(inputs.preReleaseCommand), NoValue)

\* A lightweight tag ref pointing at a commit.
Lightweight(sha) == [type |-> "commit", sha |-> sha, commit |-> sha]

\* An annotated tag: the ref points at a tag object, which points at the commit.
Annotated(sha) == [type |-> "tag", sha |-> 100 + sha, commit |-> sha]

NoTags == [n \in {} |-> Lightweight(0)]

\* Repositories a first run can find: a fresh one, and one released before
\* (annotated v1.4.2, floating v1, and a release left over for v1.5.0).
InitialRepos ==
  {[tags |-> NoTags, releases |-> {}],
   [tags |-> (TagV142 :> Annotated(1)) @@ (TagV1 :> Lightweight(1)),
    releases |-> {TagV150}]}

\* The input combinations explored: each of floating-tag, create-release and
\* pre-release-command set on its own, all three set together, and an
\* unparsable initial version.
InputCombinations ==
  {c \in [tagPrefix : TagPrefixInputs,
          initialVersion : InitialVersionInputs,
          floatingTag : FloatingTagInputs,
          createRelease : CreateReleaseInputs,
          preReleaseCommand : PreReleaseCommandInputs] :
     LET set == {f \in {"initialVersion", "floatingTag", "createRelease",
                        "preReleaseCommand"} : Len(c[f]) # 0}
     IN  \/ Cardinality(set) <= 1
         \/ set = {"floatingTag", "createRelease", "preReleaseCommand"}
              /\ c.floatingTag = InputMinor}

\* updateFloatingTag on its own, not in use.
NoFloating == [name |-> NoValue, sha |-> 0, calls |-> <<>>]

Init ==
  /\ inputs \in InputCombinations
  /\ \E repo \in InitialRepos : tags = repo.tags /\ releases = repo.releases
  /\ \E m \in RepoMessages : commits = <<MsgDocs, m>>
  /\ run = [r \in Runs |-> IdleRun]
  /\ overlap = FALSE
  /\ events = 0
  /\ pushes = 0
  /\ commitList = <<>>
  /\ classified = "pending"
  /\ resolverTag = NoValue
  /\ resolved = <<>>
  /\ floatingRef = NoFloating

Finished(r) == run[r].pc \in {"idle", "done"}

\* core.setFailed(...) followed by the end of the run; a thrown error is
\* caught by run() and ends the same way (lines 56-62).
Fail(rec, step) == [rec EXCEPT !.failed = TRUE, !.failStep = step, !.pc = "done"]

\* A developer pushes one more commit to the branch.
EnvPush ==
  /\ pushes < MaxPushes
  /\ overlap \/ \A q \in Runs : Finished(q)
  /\ \E m \in PushedMessages : commits' = Append(commits, m)
  /\ pushes' = pushes + 1
  /\ UNCHANGED <<inputs, tags, releases, run, overlap, events,
                 commitList, classified, resolverTag, resolved, floatingRef>>

\* The host starts a run for an event; context.sha is the branch head.
Trigger(r) ==
  /\ Finished(r)
  /\ events < MaxEvents
  /\ overlap \/ (r = 1 /\ \A q \in Runs : Finished(q))
  /\ \E ev \in PushEvents \cup PullRequestEvents \cup OtherEvents :
       run' = [run EXCEPT ![r] =
                 [IdleRun EXCEPT !.pc = "run",
                                 !.eventName = ev.eventName,
                                 !.ref = ev.ref,
                                 !.defaultBranch = ev.defaultBranch,
                                 !.prTitle = ev.prTitle,
                                 !.sha = Len(commits)]]
  /\ events' = events + 1
  /\ UNCHANGED <<inputs, commits, tags, releases, overlap, pushes,
                 commitList, classified, resolverTag, resolved, floatingRef>>

\* run(), lines 53-55: an event that is neither pull_request nor push.
UnsupportedEvent(r) ==
  /\ run[r].pc = "run"
  /\ run[r].eventName \notin {"pull_request", "push"}
  /\ run' = [run EXCEPT ![r].pc = "done"]
  /\ UNCHANGED <<inputs, commits, tags, releases, overlap, events, pushes,
                 commitList, classified, resolverTag, resolved, floatingRef>>

handlePullRequest(r) ==
  /\ run[r].pc = "run"
  /\ run[r].eventName = "pull_request"
  /\ run' = [run EXCEPT ![r] =
               IF run[r].prTitle = NoValue \/ Len(run[r].prTitle) = 0
                 THEN Fail(run[r], "prTitleMissing")
               ELSE IF ~CONVENTIONAL_COMMIT_REGEX(run[r].prTitle)
                 THEN Fail(run[r], "prTitleFormat")
               ELSE [run[r] EXCEPT !.pc = "done"]]
  /\ UNCHANGED <<inputs, commits, tags, releases, overlap, events, pushes,
                 commitList, classified, resolverTag, resolved, floatingRef>>

\* The branch check accepting a push to any branch.
PushToAnyBranch(ref, defaultBranchOfPayload) == StartsWith(ref, StrRefsHeads)

\* handlePush, lines 102-112: the branch check.
PushToReleaseBranch(ref, defaultBranchOfPayload) ==
  LET defaultBranch == IF defaultBranchOfPayload = NoValue THEN StrMain
                       ELSE OrDefault(defaultBranchOfPayload, StrMain)
  IN  ~ (/\ ref # StrRefsHeads \o defaultBranch
         /\ ref # StrRefsHeads \o StrMain
         /\ ref # StrRefsHeads \o StrMaster)

handlePushBranchCheck(r) ==
  /\ run[r].pc = "run"
  /\ run[r].eventName = "push"
  /\ run' = [run EXCEPT ![r] =
               IF ~PushToReleaseBranch(run[r].ref, run[r].defaultBranch)
                 THEN [run[r] EXCEPT !.outputs.bumpType = "none", !.pc = "done"]
                 \* ref is not read after the check: it is dropped here
                 ELSE [run[r] EXCEPT !.ref = NoValue, !.pc = "getLatestTag"]]
  /\ UNCHANGED <<inputs, commits, tags, releases, overlap, events, pushes,
                 commitList, classified, resolverTag, resolved, floatingRef>>

\* getLatestTag, lines 277-283: the names that start with the prefix and
\* whose remainder is a valid semver.
SemverTags(names, prefix) ==
  {name \in names : StartsWith(name, prefix) /\ SemverValid(StripPrefix(name, prefix))}

\* getLatestTag, lines 279-283: the pattern is built in the second filter,
\* which runs once per name that starts with the prefix; a pattern that is
\* not valid throws there, and the catch of lines 291-294 returns null.
RegExpThrows(names, prefix) ==
  /\ ~RegExpValid(prefix)
  /\ \E name \in names : StartsWith(name, prefix)

\* getLatestTag, lines 284-290: the head of the list sorted by rcompare is a
\* name no other name sorts strictly before.
LatestTagCandidates(names, prefix) ==
  {a \in SemverTags(names, prefix) :
     \A b \in SemverTags(names, prefix) :
       SemverRcompare(StripPrefix(a, prefix), StripPrefix(b, prefix)) <= 0}

\* getLatestTag, lines 270-294: what it returns when listTags succeeds
\* (listOk) and when it throws.
getLatestTagResults(listOk) ==
  IF /\ listOk
     /\ ~RegExpThrows(DOMAIN tags, tagPrefix)
     /\ LatestTagCandidates(DOMAIN tags, tagPrefix) # {}
    THEN LatestTagCandidates(DOMAIN tags, tagPrefix)
    ELSE {NoValue}

\* AfterGetLatestTag with a failure of listTags ending the run.
AfterGetLatestTagPropagating(rec, listOk, latest) ==
  IF listOk
    THEN [rec EXCEPT !.latestTag = latest, !.listFailed = FALSE, !.threw = {},
                     !.pc = "getCommitsSinceTag"]
    ELSE Fail([rec EXCEPT !.listFailed = TRUE, !.threw = {"listTags"}], "getLatestTag")

\* handlePush, lines 114-115: the run after getLatestTag returned latest.
AfterGetLatestTag(rec, listOk, latest) ==
  [rec EXCEPT !.latestTag = latest,
              !.listFailed = ~listOk,
              !.threw = IF listOk THEN {} ELSE {"listTags"},
              !.pc = "getCommitsSinceTag"]

getLatestTag(r) ==
  /\ run[r].pc = "getLatestTag"
  /\ \E listOk \in BOOLEAN :
       \E latest \in getLatestTagResults(listOk) :
         run' = [run EXCEPT ![r] = AfterGetLatestTag(run[r], listOk, latest)]
  /\ UNCHANGED <<inputs, commits, tags, releases, overlap, events, pushes,
                 commitList, classified, resolverTag, resolved, floatingRef>>

\* CommitInfo of the commits first..last of the branch, oldest first.
CommitRange(first, last) ==
  [i \in 1..(last - first + 1) |->
     [message |-> commits[first + i - 1], sha |-> first + i - 1]]

Reverse(s) == [i \in 1..Len(s) |-> s[Len(s) + 1 - i]]

\* The remote reads getCommitsSinceTag makes for this tag, in order.
CommitReads(tag) ==
  IF tag = NoValue THEN {"listCommits"}
  ELSE IF tags[tag].type = "tag" THEN {"getRef", "getTag", "compareCommits"}
  ELSE {"getRef", "compareCommits"}

\* getCommitsSinceTag falling back to the listing of all commits when the
\* comparison fails.
getCommitsSinceTagListingOnFailure(tag, failing) ==
  IF failing \notin {"none", "compareCommits"} THEN <<>>
  ELSE IF tag = NoValue \/ failing = "compareCommits"
    THEN Reverse(CommitRange(1, Len(commits)))
  ELSE LET tagData   == tags[tag]
           tagSha    == tagData.sha
           commitSha == IF tagData.type = "tag" THEN tagData.commit ELSE tagSha
       IN  CommitRange(commitSha + 1, Len(commits))

\* getCommitsSinceTag: failing names the read that throws, "none" if none.
getCommitsSinceTag(tag, failing) ==
  IF failing # "none" THEN <<>>
  ELSE IF tag = NoValue THEN Reverse(CommitRange(1, Len(commits)))
  ELSE LET tagData   == tags[tag]
           tagSha    == tagData.sha
           commitSha == IF tagData.type = "tag" THEN tagData.commit ELSE tagSha
       IN  CommitRange(commitSha + 1, Len(commits))

\* AnalyzeCommits returning early on an empty commit list without setting
\* the bump-type output.
AnalyzeCommitsSilentOnEmpty(rec, found, failing) ==
  LET bumpType == determineBumpType(found)
      currentVersion == IF rec.latestTag # NoValue
                          THEN StripPrefix(rec.latestTag, tagPrefix)
                          ELSE initialVersion
      newVersion == SemverInc(currentVersion, bumpType)
      seen == [rec EXCEPT !.commits = found, !.threw = {failing} \ {"none"}]
  IN  IF Len(found) = 0
        THEN [seen EXCEPT !.pc = "done"]
      ELSE IF bumpType = "none"
        THEN [seen EXCEPT !.outputs.bumpType = "none", !.pc = "done"]
      ELSE IF newVersion = NoValue
        THEN Fail([seen EXCEPT !.bumpType = bumpType], "incrementVersion")
      ELSE [seen EXCEPT !.bumpType = bumpType,
                        !.newVersion = newVersion,
                        !.newTag = tagPrefix \o newVersion,
                        !.pc = "preRelease"]

\* handlePush, lines 117-147: read the commits, classify them, compute
\* the new version and tag name.
AnalyzeCommits(rec, found, failing) ==
  LET bumpType == determineBumpType(found)
      currentVersion == IF rec.latestTag # NoValue
                          THEN StripPrefix(rec.latestTag, tagPrefix)
                          ELSE initialVersion
      newVersion == SemverInc(currentVersion, bumpType)
      seen == [rec EXCEPT !.commits = found, !.threw = {failing} \ {"none"}]
  IN  IF Len(found) = 0
        THEN [seen EXCEPT !.outputs.bumpType = "none", !.pc = "done"]
      ELSE IF bumpType = "none"
        THEN [seen EXCEPT !.outputs.bumpType = "none", !.pc = "done"]
      ELSE IF newVersion = NoValue
        THEN Fail([seen EXCEPT !.bumpType = bumpType], "incrementVersion")
      ELSE [seen EXCEPT !.bumpType = bumpType,
                        !.newVersion = newVersion,
                        !.newTag = tagPrefix \o newVersion,
                        !.pc = "preRelease"]

handlePushAnalyze(r) ==
  /\ run[r].pc = "getCommitsSinceTag"
  /\ \E failing \in {"none"} \cup CommitReads(run[r].latestTag) :
       run' = [run EXCEPT ![r] =
                 AnalyzeCommits(run[r],
                                getCommitsSinceTag(run[r].latestTag, failing),
                                failing)]
  /\ UNCHANGED <<inputs, commits, tags, releases, overlap, events, pushes,
                 commitList, classified, resolverTag, resolved, floatingRef>>

\* Outcomes of runPreReleaseCommandIfSet when a command is configured: the
\* step that throws, or "clean" (no file changes) or "committed".
PreReleaseFailures ==
  {"command", "gitStatus", "gitConfig", "gitAdd", "gitCommit", "gitPush", "gitRevParse"}

PreReleaseOutcomes == PreReleaseFailures \cup {"clean", "committed"}

\* PushedOutcomes with git push made before git commit is known to succeed.
PushedOutcomesBeforeCommit == {"gitCommit", "gitRevParse", "committed"}

\* Outcomes in which git push has succeeded.
PushedOutcomes == {"gitRevParse", "committed"}

\* AfterPreRelease returning the trigger commit also when a release commit
\* was pushed.
AfterPreReleaseTaggingTrigger(rec, outcome, newSha) ==
  LET pushed == [rec EXCEPT
                   !.threw = {outcome} \cap PreReleaseFailures,
                   !.writes = IF outcome \in PushedOutcomes
                                THEN @ \cup {[op |-> "gitPush", name |-> NoValue]}
                                ELSE @]
  IN  IF outcome \in PreReleaseFailures THEN Fail(pushed, outcome)
      ELSE [pushed EXCEPT !.shaToTag = rec.sha, !.pc = "createTag"]

\* AfterPreRelease carrying on with the trigger commit when git push fails.
AfterPreReleaseIgnoringPush(rec, outcome, newSha) ==
  LET pushed == [rec EXCEPT
                   !.threw = {outcome} \cap PreReleaseFailures,
                   !.writes = IF outcome \in PushedOutcomes
                                THEN @ \cup {[op |-> "gitPush", name |-> NoValue]}
                                ELSE @]
  IN  IF outcome \in PreReleaseFailures \ {"gitPush"} THEN Fail(pushed, outcome)
      ELSE IF outcome \in {"clean", "gitPush"}
        THEN [pushed EXCEPT !.shaToTag = rec.sha, !.pc = "createTag"]
      ELSE [pushed EXCEPT !.shaToTag = newSha, !.pc = "createTag"]

\* runPreReleaseCommandIfSet, lines 401-445, and its caller: the run after
\* the command and the git steps ended with outcome; newSha is the release
\* commit when one was pushed.
AfterPreRelease(rec, outcome, newSha) ==
  LET pushed == [rec EXCEPT
                   !.threw = {outcome} \cap PreReleaseFailures,
                   !.writes = IF outcome \in PushedOutcomes
                                THEN @ \cup {[op |-> "gitPush", name |-> NoValue]}
                                ELSE @]
  IN  IF outcome \in PreReleaseFailures THEN Fail(pushed, outcome)
      ELSE IF outcome = "clean"
        THEN [pushed EXCEPT !.shaToTag = rec.sha, !.pc = "createTag"]
      ELSE [pushed EXCEPT !.shaToTag = newSha, !.pc = "createTag"]

runPreReleaseCommandIfSet(r) ==
  /\ run[r].pc = "preRelease"
  /\ IF preReleaseCommand = NoValue
       THEN /\ run' = [run EXCEPT ![r].shaToTag = run[r].sha, ![r].threw = {},
                                  ![r].pc = "createTag"]
            /\ UNCHANGED commits
       ELSE \E outcome \in PreReleaseOutcomes :
              \* git push is accepted only as a fast-forward of the branch
              /\ outcome \in PushedOutcomes => Len(commits) = run[r].sha
              /\ commits' = IF outcome \in PushedOutcomes
                              THEN Append(commits, StrChoreRelease \o run[r].newTag)
                              ELSE commits
              /\ run' = [run EXCEPT ![r] =
                            AfterPreRelease(run[r], outcome, Len(commits) + 1)]
  /\ UNCHANGED <<inputs, tags, releases, overlap, events, pushes,
                 commitList, classified, resolverTag, resolved, floatingRef>>

\* createRef overwriting an existing ref.
CreateRefOverwriting(name, apiOk) == apiOk

\* octokit.rest.git.createRef: rejected when the ref exists (or the call fails).
CreateRefAccepted(name, apiOk) == apiOk /\ name \notin DOMAIN tags

\* octokit.rest.git.updateRef with force: rejected when the ref does not exist.
UpdateRefAccepted(name, apiOk) == apiOk /\ name \in DOMAIN tags

WithTag(name, sha) ==
  [n \in DOMAIN tags \cup {name} |-> IF n = name THEN Lightweight(sha) ELSE tags[n]]

\* createTag going on with the run when createRef is rejected.
createTagIgnoringRejection(r) ==
  /\ run[r].pc = "createTag"
  /\ \E apiOk \in BOOLEAN :
       /\ tags' = IF CreateRefAccepted(run[r].newTag, apiOk)
                    THEN WithTag(run[r].newTag, run[r].shaToTag) ELSE tags
       /\ run' = [run EXCEPT
            ![r].threw = {},
            ![r].writes = IF CreateRefAccepted(run[r].newTag, apiOk)
                            THEN @ \cup {[op |-> "createRef", name |-> run[r].newTag]}
                            ELSE @,
            ![r].outputs.newTag = run[r].newTag,
            ![r].outputs.bumpType = run[r].bumpType,
            ![r].pc = IF createRelease THEN "release" ELSE "floatingTag"]
  /\ UNCHANGED <<inputs, commits, releases, overlap, events, pushes,
                 commitList, classified, resolverTag, resolved, floatingRef>>

\* createTag setting the new-tag output before the ref is created.
createTagSettingOutputFirst(r) ==
  /\ run[r].pc = "createTag"
  /\ \E apiOk \in BOOLEAN :
       IF CreateRefAccepted(run[r].newTag, apiOk)
         THEN /\ tags' = WithTag(run[r].newTag, run[r].shaToTag)
              /\ run' = [run EXCEPT
                   ![r].threw = {},
                   ![r].writes = @ \cup {[op |-> "createRef", name |-> run[r].newTag]},
                   ![r].outputs.newTag = run[r].newTag,
                   ![r].outputs.bumpType = run[r].bumpType,
                   ![r].pc = IF createRelease THEN "release" ELSE "floatingTag"]
         ELSE /\ tags' = tags
              /\ run' = [run EXCEPT ![r] =
                            Fail([run[r] EXCEPT !.threw = {"createRef"},
                                                !.outputs.newTag = run[r].newTag],
                                 "createTag")]
  /\ UNCHANGED <<inputs, commits, releases, overlap, events, pushes,
                 commitList, classified, resolverTag, resolved, floatingRef>>

\* handlePush, lines 155-159: createTag and the outputs set after it.
createTag(r) ==
  /\ run[r].pc = "createTag"
  /\ \E apiOk \in BOOLEAN :
       IF CreateRefAccepted(run[r].newTag, apiOk)
         THEN /\ tags' = WithTag(run[r].newTag, run[r].shaToTag)
              /\ run' = [run EXCEPT
                   ![r].threw = {},
                   ![r].writes = @ \cup {[op |-> "createRef", name |-> run[r].newTag]},
                   ![r].outputs.newTag = run[r].newTag,
                   ![r].outputs.bumpType = run[r].bumpType,
                   ![r].pc = IF createRelease THEN "release" ELSE "floatingTag"]
         ELSE /\ tags' = tags
              /\ run' = [run EXCEPT ![r] =
                            Fail([run[r] EXCEPT !.threw = {"createRef"}], "createTag")]
  /\ UNCHANGED <<inputs, commits, releases, overlap, events, pushes,
                 commitList, classified, resolverTag, resolved, floatingRef>>

ReleaseUrl(tag) == StrUrl \o tag

\* Outcomes of the four calls of upsertReleaseWithGeneratedNotes; a call
\* that is not reached is listed as not made.
ReleaseCalls ==
  {c \in [generate : BOOLEAN, create : BOOLEAN, get : BOOLEAN, update : BOOLEAN] :
     /\ c.create => (~c.get /\ ~c.update)
     /\ c.update => c.get}

\* upsertReleaseWithGeneratedNotes returning the URL of the existing release
\* when updating it fails.
upsertReleaseReturningExistingUrl(tag, c) ==
  IF c.create
    THEN [url |-> ReleaseUrl(tag),
          releases |-> releases \cup {tag},
          writes |-> {[op |-> "createRelease", name |-> tag]}]
  ELSE IF c.get
    THEN [url |-> ReleaseUrl(tag),
          releases |-> releases,
          writes |-> IF c.update THEN {[op |-> "updateRelease", name |-> tag]} ELSE {}]
  ELSE [url |-> NoValue, releases |-> releases, writes |-> {}]

\* upsertReleaseWithGeneratedNotes, lines 205-262: the release URL or NoValue,
\* the releases afterwards and the writes made, given which calls succeed.
upsertReleaseWithGeneratedNotes(tag, c) ==
  IF c.create
    THEN [url |-> ReleaseUrl(tag),
          releases |-> releases \cup {tag},
          writes |-> {[op |-> "createRelease", name |-> tag]}]
  ELSE IF c.get /\ c.update
    THEN [url |-> ReleaseUrl(tag),
          releases |-> releases,
          writes |-> {[op |-> "updateRelease", name |-> tag]}]
  ELSE [url |-> NoValue, releases |-> releases, writes |-> {}]

\* The calls of the release publication that threw.
ReleaseFailures(c) ==
  {step \in {"generateNotes", "createRelease", "getReleaseByTag", "updateRelease"} :
     \/ step = "generateNotes" /\ ~c.generate
     \/ step = "createRelease" /\ ~c.create
     \/ step = "getReleaseByTag" /\ ~c.create /\ ~c.get
     \/ step = "updateRelease" /\ ~c.create /\ c.get /\ ~c.update}

\* handlePush, lines 161-174.
handlePushRelease(r) ==
  /\ run[r].pc = "release"
  /\ \E c \in ReleaseCalls :
       \* the host rejects a second release for a tag, and finds a release
       \* by tag only when there is one
       /\ c.create => run[r].newTag \notin releases
       /\ c.get => run[r].newTag \in releases
       /\ LET res == upsertReleaseWithGeneratedNotes(run[r].newTag, c)
          IN  /\ releases' = res.releases
              /\ run' = [run EXCEPT
                   ![r].writes = @ \cup res.writes,
                   ![r].threw = ReleaseFailures(c),
                   ![r].outputs.releaseUrl = IF res.url # NoValue THEN res.url ELSE @,
                   ![r].pc = "floatingTag"]
  /\ UNCHANGED <<inputs, commits, tags, overlap, events, pushes,
                 commitList, classified, resolverTag, resolved, floatingRef>>

\* updateFloatingTag making the createRef call only.
updateFloatingTagCreateOnly(name, sha, updateOk, createOk) ==
  IF CreateRefAccepted(name, createOk)
    THEN [ok |-> TRUE, tags |-> WithTag(name, sha), threw |-> {},
          writes |-> {[op |-> "createRef", name |-> name]}]
  ELSE [ok |-> FALSE, tags |-> tags, threw |-> {"createRef"}, writes |-> {}]

\* updateFloatingTag, lines 470-487: a forced updateRef, and createRef when
\* that throws; ok is FALSE when createRef throws too.
updateFloatingTag(name, sha, updateOk, createOk) ==
  IF UpdateRefAccepted(name, updateOk)
    THEN [ok |-> TRUE, tags |-> WithTag(name, sha), threw |-> {},
          writes |-> {[op |-> "updateRef", name |-> name]}]
  ELSE IF CreateRefAccepted(name, createOk)
    THEN [ok |-> TRUE, tags |-> WithTag(name, sha), threw |-> {"updateRef"},
          writes |-> {[op |-> "createRef", name |-> name]}]
  ELSE [ok |-> FALSE, tags |-> tags, threw |-> {"updateRef", "createRef"}, writes |-> {}]

\* handlePush, line 181
FloatingTagName(newVersion) == tagPrefix \o NumToStr(SemverMajor(newVersion))

\* handlePush, line 188
FloatingMinorTagName(newVersion) ==
  tagPrefix \o NumToStr(SemverMajor(newVersion)) \o <<".">>
            \o NumToStr(SemverMinor(newVersion))

\* handlePush, line 182: the commit the floating tags are moved to.
FloatingTarget(rec) == rec.sha

\* SkipFloatingTags without the major 0 case.
SkipFloatingTagsModeOnly(newVersion) == floatingTagMode = "off"

\* handlePush, lines 176-180: no floating tag when the mode is off or the
\* new version has major 0.
SkipFloatingTags(newVersion) ==
  floatingTagMode = "off" \/ SemverMajor(newVersion) = 0

\* handlePush, lines 176-185: the floating major tag.
handlePushFloatingTag(r) ==
  /\ run[r].pc = "floatingTag"
  /\ IF SkipFloatingTags(run[r].newVersion)
       THEN /\ run' = [run EXCEPT ![r].threw = {}, ![r].pc = "done"]
            /\ UNCHANGED tags
       ELSE \E updateOk \in BOOLEAN, createOk \in BOOLEAN :
              LET name == FloatingTagName(run[r].newVersion)
                  res  == updateFloatingTag(name, FloatingTarget(run[r]), updateOk, createOk)
              IN  /\ tags' = res.tags
                  /\ run' = [run EXCEPT ![r] =
                       IF ~res.ok
                         THEN Fail([run[r] EXCEPT !.threw = res.threw], "floatingTag")
                       ELSE [run[r] EXCEPT
                               !.threw = res.threw,
                               !.writes = @ \cup res.writes,
                               !.outputs.floatingTag = name,
                               !.pc = IF floatingTagMode = "major+minor"
                                        THEN "floatingMinorTag" ELSE "done"]]
  /\ UNCHANGED <<inputs, commits, releases, overlap, events, pushes,
                 commitList, classified, resolverTag, resolved, floatingRef>>

\* handlePush, lines 186-192: the floating minor tag.
handlePushFloatingMinorTag(r) ==
  /\ run[r].pc = "floatingMinorTag"
  /\ \E updateOk \in BOOLEAN, createOk \in BOOLEAN :
       LET name == FloatingMinorTagName(run[r].newVersion)
           res  == updateFloatingTag(name, FloatingTarget(run[r]), updateOk, createOk)
       IN  /\ tags' = res.tags
           /\ run' = [run EXCEPT ![r] =
                IF ~res.ok
                  THEN Fail([run[r] EXCEPT !.threw = res.threw], "floatingMinorTag")
                ELSE [run[r] EXCEPT
                        !.threw = res.threw,
                        !.writes = @ \cup res.writes,
                        !.outputs.floatingMinorTag = name,
                        !.pc = "done"]]
  /\ UNCHANGED <<inputs, commits, releases, overlap, events, pushes,
                 commitList, classified, resolverTag, resolved, floatingRef>>

Next ==
  \/ EnvPush
  \/ \E r \in Runs : Trigger(r)
  \/ \E r \in Runs : UnsupportedEvent(r)
  \/ \E r \in Runs : handlePullRequest(r)
  \/ \E r \in Runs : handlePushBranchCheck(r)
  \/ \E r \in Runs : getLatestTag(r)
  \/ \E r \in Runs : handlePushAnalyze(r)
  \/ \E r \in Runs : runPreReleaseCommandIfSet(r)
  \/ \E r \in Runs : createTag(r)
  \/ \E r \in Runs : handlePushRelease(r)
  \/ \E r \in Runs : handlePushFloatingTag(r)
  \/ \E r \in Runs : handlePushFloatingMinorTag(r)

Spec == Init /\ [][Next]_vars

\* ------------------------------------------- the classifier on its own
ClassifierMessages ==
  {MsgFeat, MsgFix, MsgDocs, MsgFeatBang, MsgFixScopeBang, MsgBodyBreaking,
   MsgBodyHyphen, MsgBodyBang, MsgBodyFeat, MsgFeature, MsgUpperFix}

CommitLists ==
  UNION {[1..n -> ClassifierMessages] : n \in 0..MaxCommitList}

InitClassify ==
  /\ inputs = [tagPrefix |-> <<>>, initialVersion |-> <<>>, floatingTag |-> <<>>,
               createRelease |-> <<>>, preReleaseCommand |-> <<>>]
  /\ commits = <<>>
  /\ tags = NoTags
  /\ releases = {}
  /\ run = [r \in Runs |-> IdleRun]
  /\ overlap = FALSE
  /\ events = 0
  /\ pushes = 0
  /\ commitList \in CommitLists
  /\ classified = "pending"
  /\ resolverTag = NoValue
  /\ resolved = <<>>
  /\ floatingRef = NoFloating

Classify ==
  /\ classified = "pending"
  /\ classified' = determineBumpType([i \in 1..Len(commitList) |->
                                        [message |-> commitList[i], sha |-> i]])
  /\ UNCHANGED <<inputs, commits, tags, releases, run, overlap, events, pushes,
                 commitList, resolverTag, resolved, floatingRef>>

NextClassify == Classify

SpecClassify == InitClassify /\ [][NextClassify]_vars

\* --------------------------------------- the version resolver on its own
\* Largest major, minor and patch number of the starting versions.
MaxVersionPart == 4

\* What may follow MAJOR.MINOR.PATCH in a starting version: nothing, the
\* pre-release part -rc.1, the build part +b7.
StartSuffixes ==
  {<<>>, <<"-", "r", "c", ".", "1">>, <<"+", "b", "7">>}

StartVersions ==
  {NumToStr(x) \o <<".">> \o NumToStr(y) \o <<".">> \o NumToStr(z) \o suffix :
     x \in 0..MaxVersionPart, y \in 0..MaxVersionPart, z \in 0..MaxVersionPart,
     suffix \in StartSuffixes}

\* All inputs left empty.
DefaultInputs ==
  [tagPrefix |-> <<>>, initialVersion |-> <<>>, floatingTag |-> <<>>,
   createRelease |-> <<>>, preReleaseCommand |-> <<>>]

BumpTypes == <<"major", "minor", "patch">>

\* incrementVersion taking initial-version also when a latest tag exists.
incrementVersionOfInitial(latestTag, bumpType) ==
  LET currentVersion == initialVersion
      newVersion == SemverInc(currentVersion, bumpType)
  IN  [currentVersion |-> currentVersion,
       newVersion |-> newVersion,
       newTag |-> IF newVersion = NoValue THEN NoValue ELSE tagPrefix \o newVersion]

\* handlePush, lines 135-146: the current version, the new version (NoValue
\* when the current one does not parse) and the new tag name.
incrementVersion(latestTag, bumpType) ==
  LET currentVersion == IF latestTag # NoValue
                          THEN StripPrefix(latestTag, tagPrefix)
                          ELSE initialVersion
      newVersion == SemverInc(currentVersion, bumpType)
  IN  [currentVersion |-> currentVersion,
       newVersion |-> newVersion,
       newTag |-> IF newVersion = NoValue THEN NoValue ELSE tagPrefix \o newVersion]

\* The resolver starts from a latest tag, or from initial-version when there
\* is no tag; initial-version may be left empty or be unparsable.
InitResolve ==
  /\ \/ \E v \in StartVersions :
          \/ inputs = [DefaultInputs EXCEPT !.initialVersion = v]
               /\ resolverTag = NoValue
          \/ inputs = DefaultInputs /\ resolverTag = StrV \o v
     \/ inputs \in {DefaultInputs, [DefaultInputs EXCEPT !.initialVersion = InputBadVersion]}
          /\ resolverTag = NoValue
  /\ commits = <<>>
  /\ tags = NoTags
  /\ releases = {}
  /\ run = [r \in Runs |-> IdleRun]
  /\ overlap = FALSE
  /\ events = 0
  /\ pushes = 0
  /\ commitList = <<>>
  /\ classified = "pending"
  /\ resolved = <<>>
  /\ floatingRef = NoFloating

ResolveVersion ==
  /\ resolved = <<>>
  /\ resolved' = [i \in 1..Len(BumpTypes) |-> incrementVersion(resolverTag, BumpTypes[i])]
  /\ UNCHANGED <<inputs, commits, tags, releases, run, overlap, events, pushes,
                 commitList, classified, resolverTag, floatingRef>>

NextResolve == ResolveVersion

SpecResolve == InitResolve /\ [][NextResolve]_vars

\* ---------------------------------------- updateFloatingTag on its own
\* Calls of updateFloatingTag made in a row with the same arguments.
MaxFloatingCalls == 2

\* Commits a floating tag may be moved to.
MaxFloatingSha == 2

\* v1.4
TagV14 ==
  <<"v", "1", ".", "4">>

\* v2
TagV2 ==
  <<"v", "2">>

FloatingNames == {TagV1, TagV14, TagV2}

\* Tag refs the call can find: none, the floating tag on either commit, as
\* a lightweight or an annotated tag, next to a version tag or not.
FloatingRepos ==
  {NoTags,
   TagV1 :> Lightweight(1),
   TagV1 :> Lightweight(2),
   TagV1 :> Annotated(1),
   (TagV142 :> Annotated(1)) @@ (TagV1 :> Lightweight(1)) @@ (TagV14 :> Lightweight(1))}

InitFloating ==
  /\ inputs = DefaultInputs
  /\ commits = <<>>
  /\ tags \in FloatingRepos
  /\ releases = {}
  /\ run = [r \in Runs |-> IdleRun]
  /\ overlap = FALSE
  /\ events = 0
  /\ pushes = 0
  /\ commitList = <<>>
  /\ classified = "pending"
  /\ resolverTag = NoValue
  /\ resolved = <<>>
  /\ \E name \in FloatingNames, sha \in 1..MaxFloatingSha :
       floatingRef = [name |-> name, sha |-> sha, calls |-> <<>>]

\* One call updateFloatingTag(name, sha). The log keeps whether the ref
\* existed, whether the host served updateRef and createRef, whether the
\* call returned (ok) or threw, the write made and the ref afterwards.
CallUpdateFloatingTag ==
  /\ floatingRef.name # NoValue
  /\ Len(floatingRef.calls) < MaxFloatingCalls
  /\ \E updateOk \in BOOLEAN, createOk \in BOOLEAN :
       LET name == floatingRef.name
           res  == updateFloatingTag(name, floatingRef.sha, updateOk, createOk)
       IN  /\ tags' = res.tags
           /\ floatingRef' =
                [floatingRef EXCEPT !.calls =
                   Append(@, [existed |-> name \in DOMAIN tags,
                              updateOk |-> updateOk,
                              createOk |-> createOk,
                              ok |-> res.ok,
                              writes |-> res.writes,
                              ref |-> IF name \in DOMAIN res.tags
                                        THEN res.tags[name] ELSE Lightweight(0)])]
  /\ UNCHANGED <<inputs, commits, releases, run, overlap, events, pushes,
                 commitList, classified, resolverTag, resolved>>

NextFloating == CallUpdateFloatingTag

SpecFloating == InitFloating /\ [][NextFloating]_vars

\* ------------------------------------------------------- overlapping runs
\* Runs may be triggered while another run is in progress, and developers
\* may push while runs are in progress. Inputs: the defaults, or floating
\* minor tags, releases and a pre-release command together.
InitOverlap ==
  /\ inputs \in {DefaultInputs,
                 [DefaultInputs EXCEPT !.floatingTag = InputMinor,
                                       !.createRelease = InputTrue,
                                       !.preReleaseCommand = InputCmd]}
  /\ tags = (TagV142 :> Annotated(1)) @@ (TagV1 :> Lightweight(1))
  /\ releases = {}
  /\ commits = <<MsgDocs, MsgFeat>>
  /\ run = [r \in Runs |-> IdleRun]
  /\ overlap = TRUE
  /\ events = 0
  /\ pushes = 0
  /\ commitList = <<>>
  /\ classified = "pending"
  /\ resolverTag = NoValue
  /\ resolved = <<>>
  /\ floatingRef = NoFloating

\* The host starts a run for a push to main while the other run may be in
\* progress; context.sha is the branch head at that time. Each of the two
\* runs is started once.
TriggerPush(r) ==
  /\ overlap
  /\ run[r].pc = "idle"
  /\ \E ev \in {e \in PushEvents : e.ref = StrRefsHeads \o StrMain} :
       run' = [run EXCEPT ![r] =
                 [IdleRun EXCEPT !.pc = "run",
                                 !.eventName = ev.eventName,
                                 !.ref = ev.ref,
                                 !.defaultBranch = ev.defaultBranch,
                                 !.prTitle = ev.prTitle,
                                 !.sha = Len(commits)]]
  /\ events' = events + 1
  /\ UNCHANGED <<inputs, commits, tags, releases, overlap, pushes,
                 commitList, classified, resolverTag, resolved, floatingRef>>

NextOverlap ==
  \/ EnvPush
  \/ \E r \in Runs : TriggerPush(r)
  \/ \E r \in Runs : handlePushBranchCheck(r)
  \/ \E r \in Runs : getLatestTag(r)
  \/ \E r \in Runs : handlePushAnalyze(r)
  \/ \E r \in Runs : runPreReleaseCommandIfSet(r)
  \/ \E r \in Runs : createTag(r)
  \/ \E r \in Runs : handlePushRelease(r)
  \/ \E r \in Runs : handlePushFloatingTag(r)
  \/ \E r \in Runs : handlePushFloatingMinorTag(r)

SpecOverlap == InitOverlap /\ [][NextOverlap]_vars

\* ----------------------------------------------- getLatestTag on its own
MaxListedTags == 3

\* v+
PrefixVPlus ==
  <<"v", "+">>

\* +v
PrefixPlusV ==
  <<"+", "v">>

\* v.
PrefixVDot ==
  <<"v", ".">>

\* 1.0.0-a+b
PrefixBuild ==
  <<"1", ".", "0", ".", "0", "-", "a", "+", "b">>

\* tag-prefix inputs: left empty (v), and prefixes with "." and "+" in them.
LatestPrefixInputs == {<<>>, PrefixVDot, PrefixVPlus, PrefixPlusV, PrefixBuild}

\* v1.5.0-rc.1
TagV150Rc1 ==
  <<"v", "1", ".", "5", ".", "0", "-", "r", "c", ".", "1">>

\* vv1.2.3
TagVV123 ==
  <<"v", "v", "1", ".", "2", ".", "3">>

\* x1.0.0
TagX100 ==
  <<"x", "1", ".", "0", ".", "0">>

\* v.1.2.3
TagVDot123 ==
  <<"v", ".", "1", ".", "2", ".", "3">>

\* v+1.2.3
TagVPlus123 ==
  <<"v", "+", "1", ".", "2", ".", "3">>

\* +v1.2.3
TagPlusV123 ==
  <<"+", "v", "1", ".", "2", ".", "3">>

\* 1.0.0-a+b2
TagBuild2 ==
  <<"1", ".", "0", ".", "0", "-", "a", "+", "b", "2">>

\* Names of the tags a listing may hold: version tags, a pre-release, floating
\* tags, a tag of another prefix, and tags under each of the prefixes above.
ListedNames ==
  {TagV142, TagV150, TagV150Rc1, TagV1, TagV14, TagVV123, TagX100,
   TagVDot123, TagVPlus123, TagPlusV123, TagBuild2}

\* A push run that passed the branch check and is about to call
\* getLatestTag, on a repository with up to MaxListedTags of the names.
InitLatest ==
  /\ \E p \in LatestPrefixInputs : inputs = [DefaultInputs EXCEPT !.tagPrefix = p]
  /\ \E names \in SUBSET ListedNames :
       /\ Cardinality(names) <= MaxListedTags
       /\ tags = [n \in names |-> Lightweight(1)]
  /\ releases = {}
  /\ commits = <<MsgDocs, MsgFix>>
  /\ run = [r \in Runs |->
              IF r = 1
                THEN [IdleRun EXCEPT !.pc = "getLatestTag",
                                     !.eventName = "push",
                                     !.defaultBranch = StrDevelop,
                                     !.sha = 2]
                ELSE IdleRun]
  /\ overlap = FALSE
  /\ events = 1
  /\ pushes = 0
  /\ commitList = <<>>
  /\ classified = "pending"
  /\ resolverTag = NoValue
  /\ resolved = <<>>
  /\ floatingRef = NoFloating

NextLatest == getLatestTag(1)

SpecLatest == InitLatest /\ [][NextLatest]_vars

\* -------------------------------------------------- sequential push runs
\* tag-prefix inputs: left empty (v), and a prefix with "+" in it.
SequentialPrefixInputs == {<<>>, PrefixVPlus}

\* Push runs to main, one after another, each started when no run is in
\* progress; developers push between runs. Inputs: the defaults, or floating
\* minor tags, releases and a pre-release command together, under each
\* prefix; the repository is fresh or holds tags of one of the prefixes.
InitSequential ==
  /\ \E c \in {DefaultInputs,
               [DefaultInputs EXCEPT !.floatingTag = InputMinor,
                                     !.createRelease = InputTrue,
                                     !.preReleaseCommand = InputCmd]} :
       \E p \in SequentialPrefixInputs : inputs = [c EXCEPT !.tagPrefix = p]
  /\ tags \in {NoTags,
               (TagV142 :> Annotated(1)) @@ (TagV1 :> Lightweight(1)),
               (TagVPlus123 :> Lightweight(1))}
  /\ releases = {}
  /\ \E m \in {MsgFix, MsgFeat} : commits = <<MsgDocs, m>>
  /\ run = [r \in Runs |-> IdleRun]
  /\ overlap = FALSE
  /\ events = 0
  /\ pushes = 0
  /\ commitList = <<>>
  /\ classified = "pending"
  /\ resolverTag = NoValue
  /\ resolved = <<>>
  /\ floatingRef = NoFloating

\* The host starts a run for a push to main when no run is in progress;
\* context.sha is the branch head.
TriggerSequentialPush(r) ==
  /\ ~overlap
  /\ r = 1
  /\ \A q \in Runs : Finished(q)
  /\ events < MaxEvents
  /\ \E ev \in {e \in PushEvents : e.ref = StrRefsHeads \o StrMain} :
       run' = [run EXCEPT ![r] =
                 [IdleRun EXCEPT !.pc = "run",
                                 !.eventName = ev.eventName,
                                 !.ref = ev.ref,
                                 !.defaultBranch = ev.defaultBranch,
                                 !.prTitle = ev.prTitle,
                                 !.sha = Len(commits)]]
  /\ events' = events + 1
  /\ UNCHANGED <<inputs, commits, tags, releases, overlap, pushes,
                 commitList, classified, resolverTag, resolved, floatingRef>>

NextSequential ==
  \/ EnvPush
  \/ \E r \in Runs : TriggerSequentialPush(r)
  \/ \E r \in Runs : handlePushBranchCheck(r)
  \/ \E r \in Runs : getLatestTag(r)
  \/ \E r \in Runs : handlePushAnalyze(r)
  \/ \E r \in Runs : runPreReleaseCommandIfSet(r)
  \/ \E r \in Runs : createTag(r)
  \/ \E r \in Runs : handlePushRelease(r)
  \/ \E r \in Runs : handlePushFloatingTag(r)
  \/ \E r \in Runs : handlePushFloatingMinorTag(r)

SpecSequential == InitSequential /\ [][NextSequential]_vars

\* ------------------------------------------------------------ properties

\* C1: for every commit list, determineBumpType returns major if some commit
\* has "!:" in its first line or "BREAKING CHANGE:" / "BREAKING-CHANGE:"
\* anywhere in its message; otherwise minor if some first line starts with
\* "feat"; otherwise patch if some first line starts with "fix"; otherwise
\* none -- whatever the other commits are and whatever their order.
C1_BumpByPriority ==
  LET breaking(m) == \/ Includes(FirstLine(m), StrBangColon)
                     \/ Includes(m, StrBreakingChange)
                     \/ Includes(m, StrBreakingHyphen)
      some(P(_)) == \E i \in 1..Len(commitList) : P(commitList[i])
      feat(m) == StartsWith(FirstLine(m), StrFeat)
      fix(m)  == StartsWith(FirstLine(m), StrFix)
  IN  classified # "pending" =>
        classified = IF some(breaking) THEN "major"
                     ELSE IF some(feat) THEN "minor"
                     ELSE IF some(fix) THEN "patch"
                     ELSE "none"

\* C1 witness: a feat commit first, a commit whose body (not first line)
\* carries the breaking marker last, classified major.
C1_Witness ==
  /\ commitList = <<MsgFeat, MsgFix, MsgBodyBreaking>>
  /\ classified = "major"

\* C2 as stated: for every push event whose ref is not refs/heads/<default
\* branch of the repository>, handlePush short-circuits: it sets bump-type
\* to none and performs no remote write.
C2_OtherThanDefaultBranchSkips ==
  [][\A r \in Runs :
       LET defaultBranch == IF run[r].defaultBranch = NoValue
                              THEN StrMain ELSE run[r].defaultBranch
       IN  (/\ run[r].eventName = "push"
            /\ run[r].pc = "run"
            /\ run'[r].pc # "run"
            /\ run[r].ref # StrRefsHeads \o defaultBranch)
           => /\ run'[r].pc = "done"
              /\ run'[r].outputs.bumpType = "none"
              /\ run'[r].writes = {}
              /\ UNCHANGED <<commits, tags, releases>>]_vars

\* C2 amended: for every push event whose ref is none of refs/heads/<default
\* branch>, refs/heads/main and refs/heads/master, handlePush short-circuits:
\* the run ends at the branch check, without failure, with bump-type none as
\* its only output and without any remote write.
C2_OtherBranchSkips ==
  [][\A r \in Runs :
       LET defaultBranch == IF run[r].defaultBranch = NoValue
                              THEN StrMain ELSE run[r].defaultBranch
       IN  (/\ run[r].eventName = "push"
            /\ run[r].pc = "run"
            /\ run'[r].pc # "run"
            /\ run[r].ref \notin {StrRefsHeads \o defaultBranch,
                                  StrRefsHeads \o StrMain,
                                  StrRefsHeads \o StrMaster})
           => /\ run'[r].pc = "done"
              /\ ~run'[r].failed
              /\ run'[r].outputs = [NoOutputs EXCEPT !.bumpType = "none"]
              /\ run'[r].writes = {}
              /\ UNCHANGED <<commits, tags, releases>>]_vars

\* C2 witness: a push to refs/heads/feature-x ended with bump-type none.
C2_Witness ==
  \E r \in Runs :
    /\ run[r].eventName = "push"
    /\ run[r].ref = StrRefsHeads \o StrFeatureX
    /\ run[r].pc = "done"
    /\ run[r].outputs.bumpType = "none"

\* C3: if the pre-release command exits non-zero, or a git step after it
\* fails (status, config, add, commit, push, rev-parse), the run ends with
\* failure status and has created or changed no version tag, no floating tag
\* and no release.
C3_PreReleaseFailureAborts ==
  \A r \in Runs :
    run[r].threw \cap PreReleaseFailures # {}
      => /\ run[r].pc = "done"
         /\ run[r].failed
         /\ run[r].outputs.newTag = NoValue
         /\ \A w \in run[r].writes : w.op = "gitPush"

\* C3 witness: the release commit was pushed and git rev-parse failed.
C3_Witness ==
  \E r \in Runs :
    /\ "gitRevParse" \in run[r].threw
    /\ run[r].failed
    /\ [op |-> "gitPush", name |-> NoValue] \in run[r].writes

\* C4: version tags are immutable: in every step an existing version tag
\* (prefix + full semver) keeps pointing at the same commit; createTag on an
\* existing name fails the run; and the forced update of a floating tag is
\* never applied to a version tag name.
C4_VersionTagsImmutable ==
  [][LET isVersionTag(name) == /\ StartsWith(name, tagPrefix)
                               /\ SemverValid(StripPrefix(name, tagPrefix))
     IN  /\ \A name \in DOMAIN tags :
              (name \notin DOMAIN tags' \/ tags'[name] # tags[name])
                => ~isVersionTag(name)
         /\ \A r \in Runs :
              (/\ run[r].pc = "createTag"
               /\ run'[r].pc # "createTag"
               /\ run[r].newTag \in DOMAIN tags)
              => run'[r].pc = "done" /\ run'[r].failed
         /\ \A r \in Runs : \A w \in run'[r].writes \ run[r].writes :
              w.op = "updateRef" => ~isVersionTag(w.name)]_vars

\* C4 witness: createTag was rejected for a name that exists and points at
\* another commit than the one the run wanted to tag.
C4_Witness ==
  \E r \in Runs :
    /\ run[r].failStep = "createTag"
    /\ run[r].newTag \in DOMAIN tags
    /\ tags[run[r].newTag].commit # run[r].shaToTag

\* C5: after every successful push run that creates a version tag with
\* major >= 1 while the floating-tag mode is not off, the floating major tag
\* points to the same commit as the new version tag.
C5_FloatingMajorOnVersionTagCommit ==
  \A r \in Runs :
    (/\ run[r].pc = "done"
     /\ ~run[r].failed
     /\ run[r].outputs.newTag # NoValue
     /\ floatingTagMode # "off"
     /\ SemverMajor(run[r].newVersion) >= 1)
    => LET floating == tagPrefix \o NumToStr(SemverMajor(run[r].newVersion))
       IN  /\ floating \in DOMAIN tags
           /\ run[r].outputs.newTag \in DOMAIN tags
           /\ tags[floating].commit = tags[run[r].outputs.newTag].commit

\* C6: whenever the new version has major 0, the run makes no floating-tag
\* write (no updateRef, and no createRef other than the version tag) and
\* sets neither floating-tag nor floating-minor-tag, in every mode.
C6_NoFloatingTagForMajorZero ==
  \A r \in Runs :
    (run[r].newVersion # NoValue /\ SemverParse(run[r].newVersion).major = 0)
    => /\ run[r].outputs.floatingTag = NoValue
       /\ run[r].outputs.floatingMinorTag = NoValue
       /\ \A w \in run[r].writes :
            /\ w.op # "updateRef"
            /\ w.op = "createRef" => w.name = run[r].newTag

\* C6 witness: a run in major+minor mode ended well with a 0.x version tag.
C6_Witness ==
  \E r \in Runs :
    /\ run[r].pc = "done"
    /\ ~run[r].failed
    /\ run[r].outputs.newTag # NoValue
    /\ SemverParse(run[r].newVersion).major = 0
    /\ floatingTagMode = "major+minor"

\* C7 as stated: on every terminating path of a push event, the failing
\* ones included, bump-type has been set to one of major, minor, patch, none.
C7_BumpTypeSetOnEveryPath ==
  \A r \in Runs :
    (run[r].eventName = "push" /\ run[r].pc = "done")
    => run[r].outputs.bumpType \in {"major", "minor", "patch", "none"}

\* C7 amended: on every terminating path of a push event, bump-type has been
\* set to one of major, minor, patch, none, except on the paths that fail
\* before the version tag is created (current version unparsable, pre-release
\* hook failure, createTag rejected), where it is left unset.
C7_BumpTypeSetUnlessFailedBeforeTag ==
  \A r \in Runs :
    (run[r].eventName = "push" /\ run[r].pc = "done")
    => IF run[r].failed
            /\ [op |-> "createRef", name |-> run[r].newTag] \notin run[r].writes
         THEN run[r].outputs.bumpType = "unset"
         ELSE run[r].outputs.bumpType \in {"major", "minor", "patch", "none"}

\* C7 witness: a push run that failed after its version tag was created,
\* with bump-type set.
C7_Witness ==
  \E r \in Runs :
    /\ run[r].eventName = "push"
    /\ run[r].pc = "done"
    /\ run[r].failed
    /\ run[r].outputs.bumpType \in {"major", "minor", "patch"}

\* C8: when create-release is enabled and release publication fails at any
\* step (generate notes, create release, get release by tag, update release),
\* the run does not fail, the version tag stays in place, release-url is set
\* only if a release was created or updated, and the floating-tag step is next.
C8_ReleaseFailureIsNotFatal ==
  \A r \in Runs :
    run[r].threw \cap {"generateNotes", "createRelease", "getReleaseByTag",
                       "updateRelease"} # {}
    => /\ ~run[r].failed
       /\ run[r].pc = "floatingTag"
       /\ run[r].newTag \in DOMAIN tags
       /\ tags[run[r].newTag].commit = run[r].shaToTag
       /\ run[r].outputs.newTag = run[r].newTag
       /\ run[r].outputs.releaseUrl # NoValue
            <=> \E w \in run[r].writes :
                  w.op \in {"createRelease", "updateRelease"} /\ w.name = run[r].newTag

\* C8 witness: notes, create and update all failed for a release that exists.
C8_Witness ==
  \E r \in Runs :
    /\ run[r].threw = {"generateNotes", "createRelease", "updateRelease"}
    /\ run[r].pc = "floatingTag"
    /\ run[r].outputs.releaseUrl = NoValue

\* C9: if a remote read inside getCommitsSinceTag fails (list commits, get
\* ref, get tag object, compare commits), the commit list is empty and the
\* run ends with zero status, bump-type none and no remote write.
C9_CommitReadFailureMeansNoBump ==
  \A r \in Runs :
    run[r].threw \cap {"listCommits", "getRef", "getTag", "compareCommits"} # {}
    => /\ run[r].commits = <<>>
       /\ run[r].pc = "done"
       /\ ~run[r].failed
       /\ run[r].outputs = [NoOutputs EXCEPT !.bumpType = "none"]
       /\ run[r].writes = {}

\* C9 witness: comparing commits failed although commits were pushed after
\* the latest tag.
C9_Witness ==
  \E r \in Runs :
    /\ "compareCommits" \in run[r].threw
    /\ run[r].latestTag \in DOMAIN tags
    /\ tags[run[r].latestTag].commit < Len(commits)
    /\ run[r].pc = "done"

\* C10 as stated: if listing tags fails, the run ends with zero status and
\* bump-type none, and creates no version tag, whatever the commits.
C10_TagListFailureMeansNoBump ==
  \A r \in Runs :
    (run[r].listFailed /\ run[r].pc = "done")
    => /\ ~run[r].failed
       /\ run[r].outputs.bumpType = "none"
       /\ \A w \in run[r].writes : w.op # "createRef"

\* C10 amended: if listing tags fails, the failure is recovered locally and
\* the run proceeds as if no tag existed: the latest tag is none and the
\* current version is initial-version. It ends with bump-type none and
\* no write only when the listed commits are absent or carry no feat, fix or
\* breaking marker; otherwise it bumps initial-version.
C10_TagListFailureMeansNoTags ==
  \A r \in Runs :
    run[r].listFailed
    => /\ run[r].latestTag = NoValue
       /\ run[r].threw = {"listTags"} => (run[r].pc = "getCommitsSinceTag" /\ ~run[r].failed)
       /\ run[r].newVersion # NoValue
            => run[r].newTag = tagPrefix \o SemverInc(initialVersion, run[r].bumpType)
       /\ run[r].pc \notin {"run", "getLatestTag", "getCommitsSinceTag"}
            => (run[r].pc = "done" /\ run[r].outputs.bumpType = "none"
                  /\ ~run[r].failed /\ run[r].writes = {})
               <=> \A i \in 1..Len(run[r].commits) :
                     LET m == run[r].commits[i].message
                     IN  /\ ~StartsWith(FirstLine(m), StrFeat)
                         /\ ~StartsWith(FirstLine(m), StrFix)
                         /\ ~Includes(FirstLine(m), StrBangColon)
                         /\ ~Includes(m, StrBreakingChange)
                         /\ ~Includes(m, StrBreakingHyphen)

\* C10 witness: tags exist, listing them failed, and the run created a
\* version tag computed from initial-version.
C10_Witness ==
  \E r \in Runs :
    /\ run[r].listFailed
    /\ TagV142 \in DOMAIN tags
    /\ run[r].outputs.newTag # NoValue
    /\ run[r].outputs.newTag \in DOMAIN tags


\* v2.0.0
TagV200 ==
  <<"v", "2", ".", "0", ".", "0">>

\* v3.0.0
TagV300 ==
  <<"v", "3", ".", "0", ".", "0">>

\* v0.0.1
TagV001 ==
  <<"v", "0", ".", "0", ".", "1">>

\* v1.2.0-rc.1
TagV120Rc1 ==
  <<"v", "1", ".", "2", ".", "0", "-", "r", "c", ".", "1">>

\* v1.2.0
TagV120 ==
  <<"v", "1", ".", "2", ".", "0">>

\* C11 as stated: for every valid current version, pre-release versions
\* included, inc(current, major) > inc(current, minor) > inc(current, patch)
\* in semver order.
C11_IncStrictlyMonotonic ==
  (resolved # <<>> /\ SemverValid(resolved[1].currentVersion))
  => /\ SemverRcompare(resolved[1].newVersion, resolved[2].newVersion) < 0
     /\ SemverRcompare(resolved[2].newVersion, resolved[3].newVersion) < 0

\* C11 amended: inc(major) >= inc(minor) >= inc(patch) for every valid
\* current version; inc(major) = inc(minor) exactly when the current version
\* has a pre-release part and minor = patch = 0, and inc(minor) = inc(patch)
\* exactly when it has a pre-release part and patch = 0. Without a
\* pre-release part the order is strict.
C11_IncMonotonic ==
  (resolved # <<>> /\ SemverValid(resolved[1].currentVersion))
  => LET cur  == SemverParse(resolved[1].currentVersion)
         pre  == Len(cur.prerelease) > 0
         majorMinor == SemverRcompare(resolved[1].newVersion, resolved[2].newVersion)
         minorPatch == SemverRcompare(resolved[2].newVersion, resolved[3].newVersion)
     IN  /\ majorMinor <= 0
         /\ minorPatch <= 0
         /\ majorMinor = 0 <=> (pre /\ cur.minor = 0 /\ cur.patch = 0)
         /\ minorPatch = 0 <=> (pre /\ cur.patch = 0)

\* C11 witness: from v1.2.0-rc.1 the minor and the patch bump both give
\* 1.2.0, the major bump 2.0.0.
C11_Witness ==
  /\ resolverTag = TagV120Rc1
  /\ resolved # <<>>
  /\ resolved[1].newTag = TagV200
  /\ resolved[2].newTag = TagV120
  /\ resolved[3].newTag = TagV120

\* C12: for a current version X.Y.Z (the latest tag without the prefix, or
\* initial-version when there is no tag) the new tag is prefix + (X+1).0.0
\* for major, prefix + X.(Y+1).0 for minor, prefix + X.Y.(Z+1) for patch;
\* no tag and initial 0.0.0 give v0.0.1 for patch, v1.4.2 gives v1.5.0 for
\* minor, v2.0.0 gives v3.0.0 for major.
C12_NewTagIsIncrementedPart ==
  resolved # <<>> =>
    LET given == IF resolverTag # NoValue
                   THEN SubSeq(resolverTag, Len(tagPrefix) + 1, Len(resolverTag))
                   ELSE initialVersion
        cur == SemverParse(given)
        triple(x, y, z) ==
          tagPrefix \o NumToStr(x) \o <<".">> \o NumToStr(y) \o <<".">> \o NumToStr(z)
    IN  /\ (cur.valid /\ Len(cur.prerelease) = 0)
             => /\ resolved[1].newTag = triple(cur.major + 1, 0, 0)
                /\ resolved[2].newTag = triple(cur.major, cur.minor + 1, 0)
                /\ resolved[3].newTag = triple(cur.major, cur.minor, cur.patch + 1)
        /\ (resolverTag = NoValue /\ initialVersion = StrInitial)
             => resolved[3].newTag = TagV001
        /\ resolverTag = TagV142 => resolved[2].newTag = TagV150
        /\ resolverTag = TagV200 => resolved[1].newTag = TagV300

\* C12 witness: the latest tag v2.0.0 resolved to v3.0.0 for a major bump.
C12_Witness ==
  /\ resolverTag = TagV200
  /\ resolved # <<>>
  /\ resolved[1].newTag = TagV300

\* C13: updateFloatingTag(name, sha) succeeds when the ref exists (forced
\* move) and when it does not (fallback to create), and it is idempotent:
\* applied twice in a row with the same name and sha it leaves the floating
\* tag pointing at sha and raises no error on either call.
C13_FloatingTagUpdateIdempotent ==
  LET calls == floatingRef.calls
      name  == floatingRef.name
  IN  /\ \A i \in 1..Len(calls) :
           /\ (calls[i].existed /\ calls[i].updateOk)
                => /\ calls[i].ok
                   /\ calls[i].writes = {[op |-> "updateRef", name |-> name]}
           /\ (~calls[i].existed /\ calls[i].createOk)
                => /\ calls[i].ok
                   /\ calls[i].writes = {[op |-> "createRef", name |-> name]}
           /\ calls[i].ok => calls[i].ref = Lightweight(floatingRef.sha)
      /\ \A i \in 2..Len(calls) :
           calls[i - 1].ok
             => /\ calls[i].existed
                /\ calls[i].updateOk => calls[i].ok
                /\ calls[i].ref = calls[i - 1].ref
      /\ (Len(calls) > 0 /\ calls[Len(calls)].ok)
           => (name \in DOMAIN tags /\ tags[name].commit = floatingRef.sha)

\* C13 witness: the ref did not exist, the first call created it, the
\* second call moved it onto the same commit, and neither threw.
C13_Witness ==
  /\ Len(floatingRef.calls) = 2
  /\ ~floatingRef.calls[1].existed
  /\ floatingRef.calls[1].ok
  /\ floatingRef.calls[2].ok
  /\ floatingRef.calls[2].writes = {[op |-> "updateRef", name |-> floatingRef.name]}
  /\ tags[floatingRef.name].commit = floatingRef.sha

\* C14: when no pre-release command is configured, or the command leaves the
\* working tree unchanged, the version tag is created on the commit that
\* triggered the run (context.sha); when the command leaves changes, they
\* are committed and pushed first and the version tag is created on that new
\* commit, the child of the trigger commit with message "chore: release <tag>".
C14_TagTargetFollowsPreRelease ==
  \A r \in Runs :
    [op |-> "createRef", name |-> run[r].newTag] \in run[r].writes
    => LET target == tags[run[r].newTag].commit
       IN  IF [op |-> "gitPush", name |-> NoValue] \in run[r].writes
             THEN /\ preReleaseCommand # NoValue
                  /\ target = run[r].sha + 1
                  /\ target <= Len(commits)
                  /\ commits[target] = StrChoreRelease \o run[r].newTag
             ELSE target = run[r].sha

\* C14 witness: a release commit was pushed and the version tag created on it.
C14_Witness ==
  \E r \in Runs :
    /\ [op |-> "gitPush", name |-> NoValue] \in run[r].writes
    /\ [op |-> "createRef", name |-> run[r].newTag] \in run[r].writes
    /\ tags[run[r].newTag].commit = Len(commits)
    /\ run[r].sha < Len(commits)

\* The sample titles that have the shape <type>[(scope)][!]: <description>
\* with a type of the list.
ConformingTitles == {TitleFix, TitleScopedBang}

\* C15 as stated: on a pull_request event the run fails, with a message
\* listing the valid types, exactly when the PR title is absent or does not
\* have the conventional shape; otherwise it succeeds; in both cases it makes
\* no remote write and sets no output.
C15_PullRequestFailsListingTypes ==
  \A r \in Runs :
    (run[r].eventName = "pull_request" /\ run[r].pc = "done")
    => /\ run[r].failed <=> run[r].prTitle \notin ConformingTitles
       /\ run[r].failed
            => Includes(setFailedMessage(run[r].failStep, run[r].prTitle), StrValidTypes)
       /\ run[r].writes = {}
       /\ run[r].outputs = NoOutputs

\* C15 amended: on a pull_request event the run fails exactly when the PR
\* title is absent (or empty) or does not have the conventional shape; the
\* message lists the valid types when the title is present and malformed,
\* and is "Unable to retrieve PR title", without that list, when the title
\* is absent; otherwise the run succeeds; in every case it makes no remote
\* write and sets no output.
C15_PullRequestTitleCheck ==
  \A r \in Runs :
    (run[r].eventName = "pull_request" /\ run[r].pc = "done")
    => LET absent  == run[r].prTitle = NoValue \/ run[r].prTitle = <<>>
           message == setFailedMessage(run[r].failStep, run[r].prTitle)
       IN  /\ run[r].failed <=> run[r].prTitle \notin ConformingTitles
           /\ (run[r].failed /\ absent)
                => message = StrUnableToRetrieve /\ ~Includes(message, StrValidTypes)
           /\ (run[r].failed /\ ~absent)
                => Includes(message, StrValidTypes) /\ Includes(message, run[r].prTitle)
           /\ run[r].writes = {}
           /\ run[r].outputs = NoOutputs
           /\ run[r].threw = {}

\* C15 witness: a pull_request event without a title failed the run.
C15_Witness ==
  \E r \in Runs :
    /\ run[r].eventName = "pull_request"
    /\ run[r].pc = "done"
    /\ run[r].prTitle = NoValue
    /\ run[r].failed
    /\ run[r].failStep = "prTitleMissing"

\* C16: the floating-tag mode bounds the floating refs a run may write: with
\* mode off (inputs off, false, 0, no) no floating tag is created or moved
\* and no floating output is set; with mode major (any other input, true and
\* empty included) only prefix+major is written; with mode major+minor
\* (inputs minor, major+minor, major,minor, majorminor) both prefix+major and
\* prefix+major.minor are written, for every release with major >= 1.
\* (The mapping of the listed inputs is evaluated where the mode is read,
\* at the floating-tag step.)
C16_ModeBoundsFloatingWrites ==
  \A r \in Runs :
    /\ run[r].pc = "floatingTag"
         => /\ \A input \in {StrOff, StrFalse, StrZero, StrNo, InputOff} :
                 parseFloatingTagMode(input) = "off"
            /\ \A input \in {StrMinor, StrMajorPlusMinor, StrMajorCommaMinor,
                              StrMajorMinor} :
                 parseFloatingTagMode(input) = "major+minor"
            /\ \A input \in {<<>>, StrTrue, StrOne, StrFeat} :
                 parseFloatingTagMode(input) = "major"
    /\ run[r].newVersion # NoValue
       => LET mode == IF inputs.floatingTag = InputOff THEN "off"
                      ELSE IF inputs.floatingTag = InputMinor THEN "major+minor"
                      ELSE "major"
              v == SemverParse(run[r].newVersion)
              majorName == tagPrefix \o NumToStr(v.major)
              minorName == majorName \o <<".">> \o NumToStr(v.minor)
              allowed == IF mode = "off" THEN {}
                         ELSE IF mode = "major" THEN {majorName}
                         ELSE {majorName, minorName}
              written == {w.name : w \in {x \in run[r].writes :
                            /\ x.op \in {"updateRef", "createRef"}
                            /\ x.name # run[r].newTag}}
              released == /\ run[r].pc = "done"
                          /\ ~run[r].failed
                          /\ [op |-> "createRef", name |-> run[r].newTag] \in run[r].writes
          IN  /\ written \subseteq allowed
              /\ run[r].outputs.floatingTag # NoValue
                   => (mode # "off" /\ run[r].outputs.floatingTag = majorName)
              /\ run[r].outputs.floatingMinorTag # NoValue
                   => (mode = "major+minor" /\ run[r].outputs.floatingMinorTag = minorName)
              /\ (released /\ v.major >= 1)
                   => /\ written = allowed
                      /\ allowed \subseteq DOMAIN tags

\* C16 witness: a run in mode major+minor released a version with major >= 1
\* and wrote both floating tags.
C16_Witness ==
  \E r \in Runs :
    /\ inputs.floatingTag = InputMinor
    /\ run[r].pc = "done"
    /\ ~run[r].failed
    /\ run[r].outputs.floatingTag # NoValue
    /\ run[r].outputs.floatingMinorTag # NoValue
    /\ run[r].outputs.floatingMinorTag \in DOMAIN tags

\* C17 as stated: irreversible remote actions happen only after every
\* fallible step has succeeded: no run ends in failure having already pushed
\* a release commit or created a tag.
C17_NoFailureAfterRemoteWrite ==
  \A r \in Runs :
    (run[r].pc = "done" /\ run[r].failed)
    => \A w \in run[r].writes : w.op \notin {"gitPush", "createRef"}

\* C17 amended: remote writes come only after the reads, the
\* classification, the version arithmetic, the pre-release command and the
\* local git steps have succeeded, but not after every fallible step: a run
\* that fails at git rev-parse or at createTag may have pushed its release
\* commit (and has made no other write), a run that fails at a floating-tag
\* write has created its version tag, and a run that fails at any earlier
\* step has made no remote write.
C17_FailedRunWritesByStep ==
  \A r \in Runs :
    (run[r].pc = "done" /\ run[r].failed)
    => LET push    == [op |-> "gitPush", name |-> NoValue]
           version == [op |-> "createRef", name |-> run[r].newTag]
       IN  /\ run[r].failStep \in
                {"prTitleMissing", "prTitleFormat", "incrementVersion", "command",
                 "gitStatus", "gitConfig", "gitAdd", "gitCommit", "gitPush",
                 "gitRevParse", "createTag", "floatingTag", "floatingMinorTag"}
           /\ run[r].failStep = "gitRevParse" => run[r].writes = {push}
           /\ run[r].failStep = "createTag" => run[r].writes \subseteq {push}
           /\ run[r].failStep \in {"floatingTag", "floatingMinorTag"}
                => (version \in run[r].writes /\ run[r].newTag \in DOMAIN tags)
           /\ run[r].failStep \notin {"gitRevParse", "createTag", "floatingTag",
                                      "floatingMinorTag"}
                => run[r].writes = {}

\* C17 witness: a run pushed its release commit and then failed at createTag,
\* the tag name being taken.
C17_Witness ==
  \E r \in Runs :
    /\ run[r].pc = "done"
    /\ run[r].failStep = "createTag"
    /\ run[r].writes = {[op |-> "gitPush", name |-> NoValue]}
    /\ commits[Len(commits)] = StrChoreRelease \o run[r].newTag
    /\ run[r].newTag \in DOMAIN tags

\* C20: within a push run the remote writes are ordered: the version tag is
\* created first, then (if enabled) the release is published, then (if
\* enabled and major >= 1) the floating tags are moved; the new-tag output
\* is set only after createTag succeeded, and no release or floating-tag
\* write happens in a run that did not create its version tag.
C20_WritesOrdered ==
  [][\A r \in Runs :
       LET version  == [op |-> "createRef", name |-> run[r].newTag]
           isRelease(w)  == w.op \in {"createRelease", "updateRelease"}
           isFloating(w) == w.op = "updateRef"
                              \/ (w.op = "createRef" /\ w.name # run[r].newTag)
           added == run'[r].writes \ run[r].writes
       IN  /\ version \in added
                => \A w \in run[r].writes : w.op = "gitPush"
           /\ \A w \in added :
                /\ isRelease(w)
                     => /\ version \in run[r].writes
                        /\ w.name = run[r].newTag
                        /\ createRelease
                        /\ \A x \in run[r].writes : ~isFloating(x)
                /\ isFloating(w)
                     => /\ version \in run[r].writes
                        /\ run[r].pc \in {"floatingTag", "floatingMinorTag"}
                        /\ floatingTagMode # "off"
                        /\ SemverMajor(run[r].newVersion) >= 1
           /\ run'[r].outputs.newTag # run[r].outputs.newTag
                => \/ run'[r].pc = "run"
                   \/ /\ version \in added
                      /\ run'[r].outputs.newTag = run[r].newTag
                      /\ run[r].newTag \in DOMAIN tags'
           /\ (run[r].pc # "done" /\ run'[r].pc = "done"
                 /\ version \notin run'[r].writes)
                => /\ run'[r].writes \subseteq {[op |-> "gitPush", name |-> NoValue]}
                   /\ run'[r].outputs.newTag = NoValue
                   /\ run'[r].outputs.releaseUrl = NoValue
                   /\ run'[r].outputs.floatingTag = NoValue]_vars

\* C20 witness: a run created its version tag, published the release and
\* moved both floating tags.
C20_Witness ==
  \E r \in Runs :
    /\ run[r].pc = "done"
    /\ [op |-> "createRef", name |-> run[r].newTag] \in run[r].writes
    /\ [op |-> "createRelease", name |-> run[r].newTag] \in run[r].writes
    /\ \E w \in run[r].writes : w.op = "updateRef"
    /\ run[r].outputs.floatingMinorTag # NoValue

\* C18: when two runs overlap and both compute the same new tag name, at
\* most one of them creates the tag; the other run's createTag fails, that
\* run ends with failure status, sets no new-tag output, and neither moves a
\* floating tag nor publishes a release, so the tag and the floating tags
\* reflect only the winning run.
C18_OneRunCreatesTheTag ==
  \A r \in Runs : \A q \in Runs \ {r} :
    (run[r].newTag # NoValue /\ run[r].newTag = run[q].newTag)
    => LET version == [op |-> "createRef", name |-> run[r].newTag]
           push    == [op |-> "gitPush", name |-> NoValue]
       IN  /\ ~(version \in run[r].writes /\ version \in run[q].writes)
           /\ version \in run[q].writes
                => /\ tags[run[q].newTag].commit = run[q].shaToTag
                   /\ run[r].pc \in {"preRelease", "createTag", "done"}
                   /\ run[r].writes \subseteq {push}
                   /\ run[r].outputs.newTag = NoValue
                   /\ run[r].outputs.releaseUrl = NoValue
                   /\ run[r].outputs.floatingTag = NoValue
                   /\ run[r].outputs.floatingMinorTag = NoValue
                   /\ run[r].pc = "done"
                        => /\ run[r].failed
                           /\ run[r].failStep \in PreReleaseFailures \cup {"createTag"}
                   /\ \A w \in run[q].writes :
                        w.op = "updateRef" => tags[w.name].commit = run[q].sha
                   /\ releases \subseteq {run[q].newTag}
           /\ run[r].threw = {"createRef"}
                => (run[r].pc = "done" /\ run[r].failed /\ run[r].failStep = "createTag")

\* C18 witness: both runs read v1.4.2 as the latest tag and computed the
\* same new tag; one created it, the other had createTag rejected and failed.
C18_Witness ==
  \E r \in Runs : \E q \in Runs \ {r} :
    /\ run[r].newTag # NoValue
    /\ run[r].newTag = run[q].newTag
    /\ run[r].latestTag = TagV142
    /\ run[q].latestTag = TagV142
    /\ [op |-> "createRef", name |-> run[q].newTag] \in run[q].writes
    /\ run[q].pc = "done"
    /\ ~run[q].failed
    /\ run[r].pc = "done"
    /\ run[r].failStep = "createTag"
    /\ "createRef" \in run[r].threw

\* C19: every commit that is classified to decide a run's bump is reachable
\* from the commit the run's new version tag points to, so each commit
\* contributes to at most one version bump, also when the branch head has
\* moved past the triggering commit before the run reads the commit range.
C19_ClassifiedCommitsReachableFromTag ==
  /\ \A r \in Runs :
       [op |-> "createRef", name |-> run[r].newTag] \in run[r].writes
       => \A i \in 1..Len(run[r].commits) :
            run[r].commits[i].sha <= tags[run[r].newTag].commit
  /\ \A r \in Runs : \A q \in Runs \ {r} :
       (/\ [op |-> "createRef", name |-> run[r].newTag] \in run[r].writes
        /\ [op |-> "createRef", name |-> run[q].newTag] \in run[q].writes)
       => \A i \in 1..Len(run[r].commits) : \A j \in 1..Len(run[q].commits) :
            run[r].commits[i].sha # run[q].commits[j].sha


\* The remainder of a name after the prefix, character by character.
Remainder(name, prefix) == SubSeq(name, Len(prefix) + 1, Len(name))

\* The names that start with the prefix and whose remainder is a valid semver.
PrefixSemverNames(names, prefix) ==
  {n \in names : StartsWith(n, prefix) /\ SemverValid(Remainder(n, prefix))}

\* A floating tag name: prefix + major, or prefix + major.minor.
IsFloatingName(name, prefix) ==
  /\ StartsWith(name, prefix)
  /\ LET parts == Split(Remainder(name, prefix), ".")
     IN  /\ Len(parts) \in {1, 2}
         /\ \A i \in 1..Len(parts) : IsNumericId(parts[i])

\* C21: when the listing succeeds, getLatestTag returns, among the listed
\* names that start with the prefix and whose remainder is a valid semver,
\* one whose version no other of them exceeds in semver order; it returns
\* none when there is no such name; and it never returns a floating tag
\* name (prefix + major, prefix + major.minor).
C21_LatestTagIsMaximumPrefixSemver ==
  (run[1].pc = "getCommitsSinceTag" /\ ~run[1].listFailed) =>
    LET eligible == PrefixSemverNames(DOMAIN tags, tagPrefix)
        latest == run[1].latestTag
    IN  /\ eligible = {} => latest = NoValue
        /\ eligible # {} =>
             /\ latest \in eligible
             /\ \A b \in eligible :
                  SemverCompareParsed(SemverParse(Remainder(latest, tagPrefix)),
                                      SemverParse(Remainder(b, tagPrefix))) >= 0
        /\ latest # NoValue => ~IsFloatingName(latest, tagPrefix)

\* C22: in sequential push runs whose tag listing succeeded, when a run
\* calls createTag the call is not rejected because the tag exists, and the
\* version of the tag it creates is strictly greater, in semver order, than
\* the version of every tag that existed before and that starts with the
\* prefix and has a valid semver as remainder.
C22_CreatedVersionsStrictlyIncrease ==
  [][\A r \in Runs :
       (/\ ~overlap
        /\ run[r].pc = "createTag"
        /\ run'[r].pc # "createTag"
        /\ ~run[r].listFailed) =>
         /\ ~(run'[r].failStep = "createTag" /\ run[r].newTag \in DOMAIN tags)
         /\ run[r].newTag \in DOMAIN tags' =>
              \A b \in PrefixSemverNames(DOMAIN tags, tagPrefix) :
                SemverCompareParsed(SemverParse(run[r].newVersion),
                                    SemverParse(Remainder(b, tagPrefix))) > 0]_vars
====
